---- MODULE Spec2Model ----
(***************************************************************************)
(* A model of mcp-proxy: the client Manager (internal/client/manager.go),  *)
(* the three upstream connections (stdio.go, sse.go, streamable.go),       *)
(* the per-upstream ProxyServer (internal/server/proxy.go), the middleware  *)
(* chain of a route (internal/middleware) and Application.Run              *)
(* (internal/app/app.go).                                                  *)
(*                                                                         *)
(* The specifications of the module:                                       *)
(*   SpecMgr    the registry with StartAll / StopAll and their goroutines  *)
(*   SpecTools  ProxyServer.addTools with its tool filter                  *)
(*   SpecProxy  ProxyServer.RegisterClient / UnregisterClient              *)
(*   SpecHttp   requests through the middleware chain of one route         *)
(*   SpecApp    Application.Run from the config to its return, with the    *)
(*              Manager's StartAll and StopAll inside it                   *)
(***************************************************************************)
EXTENDS Integers, Sequences, FiniteSets, TLC

(***************************************************************************)
(* Bounds of the model.                                                    *)
(***************************************************************************)
\* connection objects the factory can create
MaxConns == 3
\* StartAll / StopAll calls made by the caller
MaxCalls == 2
\* pages an upstream serves of its tool catalog before it ends it (SpecTools)
MaxPages == 4
\* items on one page of the tool catalog (SpecTools)
MaxPageSize == 2
\* pages an upstream serves of each catalog during a bind (SpecProxy)
MaxBindPages == 2
\* RegisterClient calls on the proxy unit (SpecProxy)
MaxBinds == 2
\* requests sent to the route (SpecHttp)
MaxReqs == 2
\* goroutines calling the registry at the same time (SpecLock)
MaxThreads == 2
\* keep-alive pings a connection's ping tasks send (SpecPing)
MaxPings == 1
\* parts ("/" or a word) of a base path and of an upstream name (SpecRoute)
MaxPathLen == 3

\* calls made on each connection, one after the other
MaxSteps == 4

\* no connection object (a nil interface value, an absent map entry)
Nil == 0

\* a nil error
NoError == "nil"

\* the connection objects; several objects can carry the same name
Conns == 1..MaxConns
Names == {"a", "b"}

\* MCPClient.GetName: fixed at construction
NameOf(o) == IF o % 2 = 1 THEN "a" ELSE "b"

\* MCPClient.GetType: the factory's three variants
TypeOf(o) ==
  CASE o % 3 = 1 -> "stdio"
    [] o % 3 = 2 -> "sse"
    [] OTHER     -> "streamable-http"

\* MCPClient.NeedsPing
NeedsPing(o) == TypeOf(o) # "stdio"

VARIABLES
  \* ---- client.Manager and the connections --------------------------------
  clients,          \* Manager.clients: name -> connection object (or Nil)
  created,          \* connection objects the factory has handed out
  connected,        \* c.connected of every connection object
  client,           \* c.client # nil of every connection object
  openHandles,      \* underlying mcp-go clients created and not yet closed
  pingTasks,        \* startPingTask goroutines started for the connection
  life,             \* how the last Connect / Disconnect call on the object ended
  opRet,            \* the catalog or health call a caller is looking at
  regRet,           \* what AddClient / RemoveClient returned to a caller that keeps it
  mutex,            \* Manager.mutex: w (a writer holds it), r (readers holding it)
  lpc,              \* the registry method each goroutine is inside ("idle": none)
  got,              \* the map a caller got from GetClients (has: it got one)
  proxyOpts,        \* config.Proxy.Options as parsed
  srvOpts,          \* the Options of one entry of config.Servers as parsed
  effOpts,          \* the Options of that entry as Load leaves them
  loaded,           \* Load has returned
  basePath,         \* baseURL.Path, as its parts: "/" and the words between
  upName,           \* the upstream's name (its key in config.Servers), as parts
  mcpRoute,         \* the pattern handed to mux.Handle (<<>>: not yet)
  ctxDone,          \* the context handed to StartAll has been cancelled
  ptask,            \* the ping tasks of each connection: how many returned
                    \* (ended), how many took <-ctx.Done() and loop on (seen),
                    \* pings sent (pings), one of them by a task that had
                    \* taken <-ctx.Done() (late)
  mpc,              \* where the caller of StartAll / StopAll is
  snapshot,         \* the local map `clients` of the call in flight
  tpc,              \* position of the goroutine started for each name
  tres,             \* what that goroutine's Connect / Disconnect returned
  errChan,          \* the buffered channel errChan (names of failed clients)
  connectCalls,     \* Connect invocations per object by the call in flight or last returned
  disconnectCalls,  \* Disconnect invocations per object by that call
  ret,              \* the last return of StartAll / StopAll
  calls,            \* the calls that have returned, in order
  crashed,          \* the process died of a nil dereference
  \* ---- server.ProxyServer ------------------------------------------------
  psClient,         \* ProxyServer.client: the bound upstream (or Nil)
  filter,           \* serverConfig.Options.ToolFilter
  registered,       \* what mcpServer holds, per catalog kind
  ppc,              \* "idle", or the catalog kind whose loop is running
  pret,             \* the call in flight or last returned, and its error
  cursor,           \* Params.Cursor of the next list request (0: empty)
  lastKind,         \* the kind last fetched; the next three describe its loop
  fetches,          \* list calls issued for that kind
  pages,            \* the pages those calls returned
  listed,           \* items on those pages (they are named 1..listed)
  attempted,        \* kinds listed at least once by the call
  failedKinds,      \* kinds whose list call returned an error
  binds,            \* RegisterClient calls made
  nBound,           \* RegisterClient calls that returned nil
  nUnbound,         \* UnregisterClient calls that returned nil
  \* ---- the middleware chain of one route ---------------------------------
  opts,             \* serverConfig.Options of the route's upstream
  handler,          \* the chained handler: its layers, outermost first
  hpc,              \* "nochain", "idle", "run" (a request is in the chain), "done"
  layer,            \* the layer of `handler` the request is about to enter
  header,           \* the request's Authorization header
  behave,           \* where the request makes the chain panic, if anywhere
  trace,            \* the layers the request has entered, in order
  logged,           \* the logger printed the request
  status,           \* the status of the response header written (0: none)
  recovered,        \* recovery's deferred function caught a panic
  escaped,          \* a panic left the chain uncaught
  reqs,             \* requests sent so far
  panics,           \* requests so far that panicked
  \* ---- Application.Run ---------------------------------------------------
  cfg,              \* what the config path leads to
  apc,              \* where Run is
  runRet,           \* what Run returned ("running": it has not)
  exitCode,         \* the exit status of the process (-1: it runs)
  btask,            \* createHTTPServer's errgroup task of each upstream
  routes,           \* the upstreams whose route is mounted on the mux
  listener,         \* "none", "accepting" or "closed"
  shutdownErr,      \* what httpServer.Shutdown returned
  \* ---- one caller driving every connection with the same calls ----------
  outcome,          \* what the last call returned, per connection
  steps             \* calls made so far

regVars  == <<clients, created>>
connVars == <<connected, client, openHandles, pingTasks, life>>
callVars == <<mpc, snapshot, tpc, tres, errChan, connectCalls, disconnectCalls,
              ret, calls>>
mgrVars  == <<regVars, connVars, callVars, crashed>>

loopVars == <<cursor, lastKind, fetches, pages, listed, attempted, failedKinds>>
pxVars   == <<psClient, filter, registered, ppc, pret, loopVars, binds, nBound,
              nUnbound>>

reqVars  == <<hpc, layer, header, behave, trace, logged, status, recovered,
              escaped, reqs, panics>>
httpVars == <<opts, handler, reqVars>>

\* what the actions of each part leave alone
appVars  == <<cfg, apc, runRet, exitCode, btask, routes, listener, shutdownErr>>

\* the callers of the connections beside the Manager
useVars  == <<opRet, regRet, mutex, lpc, got, ctxDone, ptask>>

\* the same calls made on every connection
seqVars  == <<outcome, steps>>

\* config.Provider.Load
loadVars == <<proxyOpts, srvOpts, effOpts, loaded, basePath, upName, mcpRoute>>

notMgr  == <<seqVars, loadVars, pxVars, httpVars, appVars, useVars>>
notPx   == <<seqVars, loadVars, mgrVars, httpVars, appVars, useVars>>
notHttp == <<seqVars, loadVars, mgrVars, pxVars, appVars, useVars>>
notApp  == <<seqVars, loadVars, mgrVars, pxVars, httpVars, useVars>>
notUse  == <<seqVars, loadVars, mgrVars, pxVars, httpVars, appVars, regRet, mutex, lpc, got,
             ctxDone, ptask>>
notReg  == <<seqVars, loadVars, pxVars, httpVars, appVars, opRet, mutex, lpc, got, ctxDone, ptask>>
notLock == <<seqVars, loadVars, pxVars, httpVars, appVars, opRet, regRet, got, ctxDone, ptask>>
notGot  == <<seqVars, loadVars, pxVars, httpVars, appVars, opRet, regRet, mutex, lpc, ctxDone,
             ptask>>
notSeq  == <<loadVars, pxVars, httpVars, appVars, useVars>>
notPing == <<seqVars, loadVars, mgrVars, pxVars, httpVars, appVars, opRet, regRet, mutex, lpc, got>>

vars == <<mgrVars, pxVars, httpVars, appVars, useVars, loadVars, seqVars>>

(***************************************************************************)
(* The connections: Connect and Disconnect of stdio.go, sse.go and         *)
(* streamable.go.                                                          *)
(***************************************************************************)

\* a Connect or Disconnect call on the object returns: v is "connected" when
\* it is a Connect that returns nil, and "down" when it is a Connect that
\* returns an error or a Disconnect ("down" also before the first call)
Lives(o, v) == life' = [life EXCEPT ![o] = v]

\* Disconnect's early return: `if !c.connected || c.client == nil`
DisconnectSkips(o) == ~connected[o] \/ ~client[o]

\* Disconnect's assignments after Close(): connected = false, client = nil
DisconnectClears(o) ==
  /\ connected'   = [connected EXCEPT ![o] = FALSE]
  /\ client'      = [client EXCEPT ![o] = FALSE]
  /\ openHandles' = [openHandles EXCEPT ![o] = @ - 1]

\* a variant of Disconnect that returns Close()'s error before clearing the fields
Disconnect_ReturnsBeforeClearing(o, closeOk) ==
  /\ IF DisconnectSkips(o) \/ ~closeOk
       THEN UNCHANGED <<connected, client, openHandles>>
       ELSE DisconnectClears(o)
  /\ Lives(o, "down")
  /\ UNCHANGED pingTasks

\* Disconnect as one step; closeOk is whether Close() returned nil
Disconnect(o, closeOk) ==
  /\ IF DisconnectSkips(o)
       THEN UNCHANGED <<connected, client, openHandles>>
       ELSE DisconnectClears(o)
  /\ Lives(o, "down")
  /\ UNCHANGED pingTasks

\* the error Disconnect returns
DisconnectFails(o, closeOk) == ~DisconnectSkips(o) /\ ~closeOk

(***************************************************************************)
(* The catalog and health operations of a connection, as a caller that     *)
(* holds the connection makes them between the Manager's calls.            *)
(***************************************************************************)

\* Ping and the seven protocol methods that take the same guard
Ops == {"Ping", "ListTools", "CallTool", "ListPrompts", "GetPrompt",
        "ListResources", "ReadResource", "ListResourceTemplates"}

\* fmt.Errorf("client not connected")
ErrNotConnected == "client not connected"

\* no call is being looked at
NoOp == [op |-> "none", conn |-> Nil, err |-> NoError, sent |-> FALSE]

\* a variant of the guard that tests c.client only
NotConnected_ClientOnly(o) == ~client[o]

\* the guard every operation starts with: `if !c.connected || c.client == nil`
NotConnected(o) == ~connected[o] \/ ~client[o]

\* c.Ping / c.ListTools / ...: the guard, else `return c.client.X(ctx, request)`
\* (sent: the call reached the underlying client, which answers as it likes)
CallOp(o, op) ==
  /\ ~crashed
  /\ mpc = "idle"
  /\ opRet = NoOp
  /\ o \in created
  /\ IF NotConnected(o)
       THEN opRet' = [op |-> op, conn |-> o, err |-> ErrNotConnected,
                      sent |-> FALSE]
       ELSE \E e \in {NoError, "upstream error"} :
              opRet' = [op |-> op, conn |-> o, err |-> e, sent |-> TRUE]
  /\ UNCHANGED notUse

\* the caller has taken the result
OpReturns ==
  /\ opRet # NoOp
  /\ opRet' = NoOp
  /\ UNCHANGED notUse

(***************************************************************************)
(* startPingTask (sse.go, streamable.go): the goroutine a successful       *)
(* Connect starts with the context StartAll was given.  The ticker is      *)
(* stopped by the deferred ticker.Stop() as the goroutine returns.         *)
(***************************************************************************)

\* the caller of StartAll cancels the context (Run: `defer cancel()`)
CancelCtx ==
  /\ ~ctxDone
  /\ ctxDone' = TRUE
  /\ UNCHANGED ptask
  /\ UNCHANGED notPing

\* ping tasks of the connection still in their loop
PingLive(o) == pingTasks[o] - ptask[o].ended

\* a variant of the loop that goes round again after <-ctx.Done()
OnDoneReturns_LoopsOn == FALSE

\* `case <-ctx.Done(): return`
OnDoneReturns == TRUE

\* `case <-ticker.C:` in a task of the connection (seen: one that took
\* <-ctx.Done() before): `if c.connected && c.client != nil { c.client.Ping(ctx) }`
PingTick(o, seen) ==
  /\ ~crashed
  /\ IF seen THEN ptask[o].seen > 0 ELSE PingLive(o) - ptask[o].seen > 0
  /\ ptask[o].pings < MaxPings
  /\ connected[o] /\ client[o]
  /\ ptask' = [ptask EXCEPT ![o].pings = @ + 1, ![o].late = @ \/ seen]
  /\ UNCHANGED ctxDone
  /\ UNCHANGED notPing

\* `case <-ctx.Done():` in a task of the connection that has not taken it yet
PingDone(o) ==
  /\ ~crashed
  /\ ctxDone
  /\ PingLive(o) - ptask[o].seen > 0
  /\ ptask' = IF OnDoneReturns
                THEN [ptask EXCEPT ![o].ended = @ + 1]
                ELSE [ptask EXCEPT ![o].seen = @ + 1]
  /\ UNCHANGED ctxDone
  /\ UNCHANGED notPing

(***************************************************************************)
(* client.Manager: the registry.                                           *)
(***************************************************************************)

\* a variant of AddClient's test that never finds the name
Exists_Never(n) == n # n

\* `_, exists := m.clients[name]`
Exists(n) == clients[n] # Nil

\* what AddClient does to the Manager, on an object fresh from the factory
\* (CreateAndAddClient, Run): a name already present leaves the map as it is
AddClientDoes(o) ==
  /\ ~crashed
  /\ o \notin created
  /\ created' = created \cup {o}
  /\ clients' = IF Exists(NameOf(o))
                THEN clients
                ELSE [clients EXCEPT ![NameOf(o)] = o]
  /\ UNCHANGED <<connVars, callVars, crashed>>

\* what AddClient returns
AddClientReturn(o) ==
  IF Exists(NameOf(o)) THEN "already exists" ELSE NoError

\* AddClient with its return dropped
AddClient(o) == AddClientDoes(o) /\ UNCHANGED notMgr

\* AddClient with its return kept
AddClientCall(o) ==
  /\ AddClientDoes(o)
  /\ regRet' = [op |-> "AddClient", err |-> AddClientReturn(o),
                logged |-> FALSE]
  /\ UNCHANGED notReg

\* a variant of RemoveClient that returns Disconnect's error and keeps the entry
RemoveKeeps_OnError(o, closeOk) == DisconnectFails(o, closeOk)

\* RemoveClient only logs Disconnect's error: the entry is deleted all the same
RemoveKeeps(o, closeOk) == FALSE

\* what RemoveClient does to the Manager: nothing for an absent name; a
\* present one is disconnected, then deleted, all under the write lock
RemoveClientDoes(n, closeOk) ==
  /\ ~crashed
  /\ IF ~Exists(n)
       THEN UNCHANGED <<clients, connVars>>
       ELSE /\ Disconnect(clients[n], closeOk)
            /\ clients' = IF RemoveKeeps(clients[n], closeOk)
                            THEN clients
                            ELSE [clients EXCEPT ![n] = Nil]
  /\ UNCHANGED <<created, callVars, crashed>>

\* what RemoveClient returns
RemoveClientReturn(n, closeOk) ==
  CASE ~Exists(n)                       -> "not found"
    [] RemoveKeeps(clients[n], closeOk) -> "close error"
    [] OTHER                            -> NoError

\* RemoveClient with its return dropped
RemoveClient(n) ==
  \E closeOk \in BOOLEAN : RemoveClientDoes(n, closeOk) /\ UNCHANGED notMgr

\* RemoveClient with its return kept (logged: it printed Disconnect's error)
RemoveClientCall(n) ==
  \E closeOk \in BOOLEAN :
    /\ RemoveClientDoes(n, closeOk)
    /\ regRet' = [op |-> "RemoveClient", err |-> RemoveClientReturn(n, closeOk),
                  logged |-> Exists(n) /\ DisconnectFails(clients[n], closeOk)]
    /\ UNCHANGED notReg

\* a variant of GetClients that returns m.clients itself
GetClientsCopies_ReturnsMap == FALSE

\* GetClients fills `result := make(map[string]interfaces.MCPClient)`
GetClientsCopies == TRUE

\* GetClients: the caller holds what it returned (shared: the returned map
\* is the Manager's own map object, map: its entries when it is not)
GetClientsCall ==
  /\ ~crashed
  /\ mpc = "idle"
  /\ got' = [has |-> TRUE, shared |-> ~GetClientsCopies, map |-> clients]
  /\ UNCHANGED mgrVars
  /\ UNCHANGED notGot

\* the caller stores the object v under n in the map it got, or deletes n
\* (v = Nil); the write lands in the map object the caller holds
GotEdit(n, v) ==
  /\ ~crashed
  /\ got.has
  /\ v \in created \cup {Nil}
  /\ IF got.shared
       THEN clients' = [clients EXCEPT ![n] = v] /\ UNCHANGED got
       ELSE got' = [got EXCEPT !.map[n] = v] /\ UNCHANGED clients
  /\ UNCHANGED <<created, connVars, callVars, crashed>>
  /\ UNCHANGED notGot

(***************************************************************************)
(* Manager.mutex: the methods of the registry as goroutines run them, from *)
(* taking the lock to the deferred unlock.                                 *)
(***************************************************************************)

Threads == 1..MaxThreads

\* the methods that touch m.clients; StartAll and StopAll for their snapshot
RegOps == {"AddClient", "RemoveClient", "GetClient", "GetClients", "StartAll",
           "StopAll"}

\* a variant in which every method takes the read lock
LockOf_AllRLock(op) == "RLock"

\* m.mutex.Lock() in AddClient and RemoveClient, m.mutex.RLock() in the others
LockOf(op) == IF op \in {"AddClient", "RemoveClient"} THEN "Lock" ELSE "RLock"

\* the method is entered and its lock taken: sync.RWMutex grants Lock when
\* nobody holds the mutex, RLock when no writer holds it
LockAcquire(t, op) ==
  /\ ~crashed
  /\ lpc[t] = "idle"
  /\ op = "AddClient" => created # Conns
  /\ IF LockOf(op) = "Lock"
       THEN /\ ~mutex.w /\ mutex.r = 0
            /\ mutex' = [mutex EXCEPT !.w = TRUE]
       ELSE /\ ~mutex.w
            /\ mutex' = [mutex EXCEPT !.r = @ + 1]
  /\ lpc' = [lpc EXCEPT ![t] = op]
  /\ UNCHANGED mgrVars
  /\ UNCHANGED notLock

\* the body of the method under the lock, and the unlock as it returns
Unlock(t) ==
  /\ lpc[t] # "idle"
  /\ CASE lpc[t] = "AddClient"    -> \E o \in Conns : AddClientDoes(o)
       [] lpc[t] = "RemoveClient" ->
            \E n \in Names, closeOk \in BOOLEAN : RemoveClientDoes(n, closeOk)
       [] OTHER                   -> UNCHANGED mgrVars
  /\ mutex' = IF LockOf(lpc[t]) = "Lock"
                THEN [mutex EXCEPT !.w = FALSE]
                ELSE [mutex EXCEPT !.r = @ - 1]
  /\ lpc' = [lpc EXCEPT ![t] = "idle"]
  /\ UNCHANGED notLock

(***************************************************************************)
(* StartAll and StopAll: a snapshot, one goroutine per entry, wg.Wait,     *)
(* then the errors read back from errChan.                                 *)
(***************************************************************************)

NoTasks == [n \in Names |-> "none"]
NoCalls == [o \in Conns |-> 0]

\* len(clients) of the snapshot
SnapshotLen == Cardinality({n \in Names : snapshot[n] # Nil})

\* a variant of errChan with room for one error only
ErrChanCap_OneSlot == IF SnapshotLen > 0 THEN 1 ELSE 0

\* make(chan error, len(clients))
ErrChanCap == SnapshotLen

\* select { case errChan <- err: default: }
Send(ch, n) == IF Len(ch) < ErrChanCap THEN Append(ch, n) ELSE ch

\* a variant of StartAll / StopAll that does not wait for its goroutines
WaitGroupDone_NoWait == TRUE

\* wg.Wait(): every goroutine has run its deferred wg.Done()
WaitGroupDone == \A n \in Names : tpc[n] \in {"none", "done"}

\* a goroutine returns (err: whether Connect / Disconnect returned an error)
TaskReturns(n, err) ==
  /\ tpc'  = [tpc EXCEPT ![n] = "done"]
  /\ tres' = [tres EXCEPT ![n] = IF err THEN "err" ELSE "ok"]
  /\ errChan' = IF err THEN Send(errChan, n) ELSE errChan

\* what StartAll returns: startErrors[0], or nil
StartAllResult == IF errChan # <<>> THEN Head(errChan) ELSE NoError

\* a variant of StopAll that returns its first error, as StartAll does
StopAllResult_FirstError == StartAllResult

\* what StopAll returns: the errors are logged, nil is returned
StopAllResult == NoError

\* the process dies: a method called on the nil c.client
Crash ==
  /\ crashed' = TRUE
  /\ UNCHANGED <<regVars, connVars, callVars>>

StartAllBegin ==
  /\ ~crashed
  /\ mpc = "idle"
  /\ Len(calls) < MaxCalls
  /\ snapshot' = clients
  /\ connectCalls' = NoCalls
  /\ tres' = NoTasks
  /\ errChan' = <<>>
  /\ IF \A n \in Names : clients[n] = Nil
       THEN /\ ret' = [op |-> "StartAll", err |-> NoError]
            /\ calls' = Append(calls, "StartAll")
            /\ tpc' = NoTasks
            /\ UNCHANGED mpc
       ELSE /\ mpc' = "starting"
            /\ tpc' = [n \in Names |-> IF clients[n] # Nil THEN "c_check" ELSE "none"]
            /\ UNCHANGED <<ret, calls>>
  /\ disconnectCalls' = NoCalls
  /\ UNCHANGED <<regVars, connVars, crashed>>
  /\ UNCHANGED notMgr

\* Connect is entered: `if c.connected { return nil }`
ConnectEnter(n) ==
  /\ ~crashed
  /\ mpc = "starting"
  /\ tpc[n] = "c_check"
  /\ connectCalls' = [connectCalls EXCEPT ![snapshot[n]] = @ + 1]
  /\ IF connected[snapshot[n]]
       THEN /\ TaskReturns(n, FALSE)
            /\ Lives(snapshot[n], "connected")
       ELSE /\ tpc' = [tpc EXCEPT ![n] = "c_create"]
            /\ UNCHANGED <<tres, errChan, life>>
  /\ UNCHANGED <<regVars, connected, client, openHandles, pingTasks, mpc,
                 snapshot, disconnectCalls, ret, calls, crashed>>
  /\ UNCHANGED notMgr

\* NewStdioMCPClient / NewSSEMCPClient / NewStreamableHttpClient, c.client = it;
\* the stdio variant sets connected = true right away
ConnectCreate(n) ==
  LET o == snapshot[n] IN
  /\ ~crashed
  /\ mpc = "starting"
  /\ tpc[n] = "c_create"
  /\ \E ok \in BOOLEAN :
       IF ~ok
         THEN /\ TaskReturns(n, TRUE)
              /\ Lives(o, "down")
              /\ UNCHANGED <<connected, client, openHandles, pingTasks>>
         ELSE /\ client' = [client EXCEPT ![o] = TRUE]
              /\ openHandles' = [openHandles EXCEPT ![o] = @ + 1]
              /\ connected' = IF TypeOf(o) = "stdio"
                                THEN [connected EXCEPT ![o] = TRUE]
                                ELSE connected
              /\ tpc' = [tpc EXCEPT ![n] = IF TypeOf(o) = "stdio"
                                             THEN "c_init" ELSE "c_start"]
              /\ UNCHANGED <<pingTasks, life, tres, errChan>>
  /\ UNCHANGED <<regVars, mpc, snapshot, connectCalls, disconnectCalls, ret,
                 calls, crashed>>
  /\ UNCHANGED notMgr

\* c.client.Start(ctx), then connected = true (sse, streamable)
ConnectStart(n) ==
  LET o == snapshot[n] IN
  /\ ~crashed
  /\ mpc = "starting"
  /\ tpc[n] = "c_start"
  /\ IF ~client[o]
       THEN Crash
       ELSE /\ \E ok \in BOOLEAN :
                 IF ~ok
                   THEN /\ TaskReturns(n, TRUE)
                        /\ Lives(o, "down")
                        /\ UNCHANGED <<connected, client, openHandles,
                                       pingTasks>>
                   ELSE /\ connected' = [connected EXCEPT ![o] = TRUE]
                        /\ tpc' = [tpc EXCEPT ![n] = "c_init"]
                        /\ UNCHANGED <<client, openHandles, pingTasks, life,
                                       tres, errChan>>
            /\ UNCHANGED <<regVars, mpc, snapshot, connectCalls,
                           disconnectCalls, ret, calls, crashed>>
  /\ UNCHANGED notMgr

\* c.client.Initialize: on error connected = false; on success the ping
\* goroutine is started (sse, streamable)
ConnectInit(n) ==
  LET o == snapshot[n] IN
  /\ ~crashed
  /\ mpc = "starting"
  /\ tpc[n] = "c_init"
  /\ IF ~client[o]
       THEN Crash
       ELSE /\ \E ok \in BOOLEAN :
                 IF ~ok
                   THEN /\ connected' = [connected EXCEPT ![o] = FALSE]
                        /\ TaskReturns(n, TRUE)
                        /\ Lives(o, "down")
                        /\ UNCHANGED <<client, openHandles, pingTasks>>
                   ELSE /\ pingTasks' = IF NeedsPing(o)
                                          THEN [pingTasks EXCEPT ![o] = @ + 1]
                                          ELSE pingTasks
                        /\ TaskReturns(n, FALSE)
                        /\ Lives(o, "connected")
                        /\ UNCHANGED <<connected, client, openHandles>>
            /\ UNCHANGED <<regVars, mpc, snapshot, connectCalls,
                           disconnectCalls, ret, calls, crashed>>
  /\ UNCHANGED notMgr

StartAllReturn ==
  /\ ~crashed
  /\ mpc = "starting"
  /\ WaitGroupDone
  /\ ret' = [op |-> "StartAll", err |-> StartAllResult]
  /\ calls' = Append(calls, "StartAll")
  /\ mpc' = "idle"
  /\ UNCHANGED <<regVars, connVars, snapshot, tpc, tres, errChan, connectCalls,
                 disconnectCalls, crashed>>
  /\ UNCHANGED notMgr

StopAllBegin ==
  /\ ~crashed
  /\ mpc = "idle"
  /\ Len(calls) < MaxCalls
  /\ snapshot' = clients
  /\ disconnectCalls' = NoCalls
  /\ tres' = NoTasks
  /\ errChan' = <<>>
  /\ IF \A n \in Names : clients[n] = Nil
       THEN /\ ret' = [op |-> "StopAll", err |-> NoError]
            /\ calls' = Append(calls, "StopAll")
            /\ tpc' = NoTasks
            /\ UNCHANGED mpc
       ELSE /\ mpc' = "stopping"
            /\ tpc' = [n \in Names |-> IF clients[n] # Nil THEN "d_run" ELSE "none"]
            /\ UNCHANGED <<ret, calls>>
  /\ connectCalls' = NoCalls
  /\ UNCHANGED <<regVars, connVars, crashed>>
  /\ UNCHANGED notMgr

\* the goroutine of StopAll: client.Disconnect()
DisconnectTask(n) ==
  LET o == snapshot[n] IN
  /\ ~crashed
  /\ mpc = "stopping"
  /\ tpc[n] = "d_run"
  /\ disconnectCalls' = [disconnectCalls EXCEPT ![o] = @ + 1]
  /\ \E closeOk \in BOOLEAN :
       /\ Disconnect(o, closeOk)
       /\ TaskReturns(n, DisconnectFails(o, closeOk))
  /\ UNCHANGED <<regVars, mpc, snapshot, connectCalls, ret, calls, crashed>>
  /\ UNCHANGED notMgr

StopAllReturn ==
  /\ ~crashed
  /\ mpc = "stopping"
  /\ WaitGroupDone
  /\ ret' = [op |-> "StopAll", err |-> StopAllResult]
  /\ calls' = Append(calls, "StopAll")
  /\ mpc' = "idle"
  /\ UNCHANGED <<regVars, connVars, snapshot, tpc, tres, errChan, connectCalls,
                 disconnectCalls, crashed>>
  /\ UNCHANGED notMgr

(***************************************************************************)
(* server.ProxyServer: RegisterClient, UnregisterClient and the four       *)
(* catalog loops of addClientResources.  The upstream answers every list   *)
(* call as it likes: an error, or a page of items and a next cursor.  The  *)
(* items of a kind are named 1, 2, 3, ... in the order they are listed.    *)
(***************************************************************************)

\* the upstreams a proxy unit can be handed
Ups == {1, 2}

KindSet == {"tools", "prompts", "resources", "templates"}

\* the order of addClientResources; after the last kind it returns
NextKind(kind) ==
  CASE kind = "tools"     -> "prompts"
    [] kind = "prompts"   -> "resources"
    [] kind = "resources" -> "templates"
    [] OTHER              -> "idle"

\* sizes of the pages the upstream serves
PageSizes == 0..MaxPageSize
BindPageSizes == {0, 1}

\* the filter modes the configurations draw from
Modes == {"allow", "ALLOW", "block", "Block", "deny", ""}

\* strings.ToLower, on those
ToLower(m) ==
  CASE m = "ALLOW" -> "allow"
    [] m = "Block" -> "block"
    [] OTHER       -> m

\* Options == nil or Options.ToolFilter == nil
NoFilter == [set |-> FALSE, mode |-> "", list |-> {}]

\* createToolFilter's condition for building a filter set
FilterActive == filter.set /\ filter.list # {}

\* a variant of validateToolFilter that accepts every mode
ValidateToolFilter_AnyMode == filter = filter

\* validateToolFilter returns nil: with a non-empty list the lowered mode is
\* allow or block
ValidateToolFilter ==
  filter.list # {} => ToLower(filter.mode) \in {"allow", "block"}

\* validateServerConfig lets the upstream's options through
ValidateAccepts == filter.set => ValidateToolFilter

\* a variant of the filter whose block mode keeps the listed tools
FilterFunc_BlockKeepsListed(toolName) ==
  IF FilterActive
    THEN CASE ToLower(filter.mode) = "allow" -> toolName \in filter.list
           [] ToLower(filter.mode) = "block" -> toolName \in filter.list
           [] OTHER                          -> TRUE
    ELSE TRUE

\* a variant of the filter that lets nothing through under an unknown mode
FilterFunc_UnknownFailsClosed(toolName) ==
  IF FilterActive
    THEN CASE ToLower(filter.mode) = "allow" -> toolName \in filter.list
           [] ToLower(filter.mode) = "block" -> toolName \notin filter.list
           [] OTHER                          -> FALSE
    ELSE TRUE

\* the function createToolFilter returns
FilterFunc(toolName) ==
  IF FilterActive
    THEN CASE ToLower(filter.mode) = "allow" -> toolName \in filter.list
           [] ToLower(filter.mode) = "block" -> toolName \notin filter.list
           [] OTHER                          -> TRUE
    ELSE TRUE

\* the items of a page of k items that follows n items
PageItems(n, k) == (n + 1)..(n + k)

\* a variant of the loops that registers a page only when it is the last one
PageRegistered_WhenLast(kind, n, k, more) ==
  IF more THEN {}
  ELSE {i \in PageItems(n, k) : kind # "tools" \/ FilterFunc(i)}

\* the items of that page the loop registers (AddTool is behind the filter)
PageRegistered(kind, n, k, more) ==
  {i \in PageItems(n, k) : kind # "tools" \/ FilterFunc(i)}

\* a variant of the loops that stops only at an empty page
LoopBreaks_OnEmptyOnly(k, more) == k = 0

\* the loop's two breaks: no items, or an empty NextCursor
LoopBreaks(k, more) == k = 0 \/ ~more

\* a variant of addClientResources in which every kind's error is returned
Fatal_EveryKind(kind) == kind \in KindSet

\* addClientResources returns the error of addTools only
Fatal(kind) == kind = "tools"

\* a variant of RegisterClient without its guard
AlreadyRegistered_Never == psClient # psClient

\* RegisterClient's guard: `if ps.client != nil`
AlreadyRegistered == psClient # Nil

\* the values of the loop's variables before the kind's next list call
FirstFetch(kind) == lastKind # kind
Listed0(kind)    == IF FirstFetch(kind) THEN 0 ELSE listed
Pages0(kind)     == IF FirstFetch(kind) THEN <<>> ELSE pages
Fetches0(kind)   == IF FirstFetch(kind) THEN 0 ELSE fetches

\* NextCursor of the page returned last: the number of the page ("": 0)
NextCursor(ps) == IF ps[Len(ps)].more THEN Len(ps) ELSE 0

\* a variant of the loops that never sets the cursor of the request
RequestCursor_NeverSet(ps) == NextCursor(ps) - NextCursor(ps)

\* `toolsRequest.Params.Cursor = tools.NextCursor`
RequestCursor(ps) == NextCursor(ps)

\* the kind's loop is left for `after` ("idle": the call returns nil)
KindEnds(after) ==
  /\ ppc' = after
  /\ cursor' = 0
  /\ pret' = IF after = "idle" THEN [pret EXCEPT !.err = NoError] ELSE pret
  /\ nBound' = IF after = "idle" /\ pret.op = "RegisterClient"
                 THEN nBound + 1 ELSE nBound

\* One turn of the loop of addTools / addPrompts / addResources /
\* addResourceTemplates: the list call, the break on an empty page, the
\* registration of the page, the break on an empty cursor.  The upstream ends
\* its catalog by page `limit`.
ListPage(kind, limit, sizes, after) ==
  /\ ppc = kind
  /\ lastKind' = kind
  /\ fetches' = Fetches0(kind) + 1
  /\ attempted' = attempted \cup {kind}
  /\ \/ \* the list call returns an error
        /\ failedKinds' = failedKinds \cup {kind}
        /\ pages' = Pages0(kind)
        /\ listed' = Listed0(kind)
        /\ IF Fatal(kind)
             THEN /\ ppc' = "idle"
                  /\ cursor' = 0
                  /\ pret' = [pret EXCEPT !.err = kind]
                  /\ UNCHANGED nBound
             ELSE KindEnds(after)
        /\ UNCHANGED registered
     \/ \* the list call returns a page of k items and a cursor (more) or none
        \E k \in sizes, more \in BOOLEAN :
          /\ Len(Pages0(kind)) + 1 < limit \/ ~more
          /\ pages' = Append(Pages0(kind), [size |-> k, more |-> more])
          /\ listed' = Listed0(kind) + k
          /\ registered' =
               [registered EXCEPT ![kind] =
                  @ \cup PageRegistered(kind, Listed0(kind), k, more)]
          /\ IF LoopBreaks(k, more)
               THEN KindEnds(after)
               ELSE /\ cursor' = RequestCursor(pages')
                    /\ UNCHANGED <<ppc, pret, nBound>>
          /\ UNCHANGED failedKinds
  /\ UNCHANGED <<psClient, filter, binds, nUnbound>>
  /\ UNCHANGED notPx

\* RegisterClient: the guard, ps.client = client, then addClientResources
RegisterClient(c) ==
  /\ ppc = "idle"
  /\ binds < MaxBinds
  /\ binds' = binds + 1
  /\ IF AlreadyRegistered
       THEN /\ pret' = [op |-> "RegisterClient", err |-> "already"]
            /\ UNCHANGED <<psClient, ppc, loopVars>>
       ELSE /\ psClient' = c
            /\ ppc' = "tools"
            /\ pret' = [op |-> "RegisterClient", err |-> "pending"]
            /\ cursor' = 0
            /\ lastKind' = "none"
            /\ fetches' = 0
            /\ pages' = <<>>
            /\ listed' = 0
            /\ attempted' = {}
            /\ failedKinds' = {}
  /\ UNCHANGED <<filter, registered, nBound, nUnbound>>
  /\ UNCHANGED notPx

\* the loop of the kind RegisterClient has reached
BindPage(kind) == ListPage(kind, MaxBindPages, BindPageSizes, NextKind(kind))

\* a variant of UnregisterClient that also empties the local endpoint
UnregisterClient_ClearsCatalog ==
  /\ ppc = "idle"
  /\ IF psClient = Nil
       THEN /\ pret' = [op |-> "UnregisterClient", err |-> "notbound"]
            /\ UNCHANGED <<psClient, nUnbound, registered>>
       ELSE /\ psClient' = Nil
            /\ pret' = [op |-> "UnregisterClient", err |-> NoError]
            /\ nUnbound' = nUnbound + 1
            /\ registered' = [kind \in KindSet |-> {}]
  /\ UNCHANGED <<filter, ppc, loopVars, binds, nBound>>
  /\ UNCHANGED notPx

\* UnregisterClient
UnregisterClient ==
  /\ ppc = "idle"
  /\ IF psClient = Nil
       THEN /\ pret' = [op |-> "UnregisterClient", err |-> "notbound"]
            /\ UNCHANGED <<psClient, nUnbound>>
       ELSE /\ psClient' = Nil
            /\ pret' = [op |-> "UnregisterClient", err |-> NoError]
            /\ nUnbound' = nUnbound + 1
  /\ UNCHANGED <<filter, registered, ppc, loopVars, binds, nBound>>
  /\ UNCHANGED notPx

\* addTools called on a new proxy unit
AddToolsCall ==
  /\ ppc = "idle"
  /\ pret.op = "none"
  /\ ppc' = "tools"
  /\ pret' = [op |-> "addTools", err |-> "pending"]
  /\ UNCHANGED <<psClient, filter, registered, loopVars, binds, nBound, nUnbound>>
  /\ UNCHANGED notPx

\* the loop of addTools
ToolsPage == ListPage("tools", MaxPages, PageSizes, "idle")

\* the tool names a filter list can hold: those the upstream can list, and one
\* it never lists
ToolNames == 1..(MaxPages * MaxPageSize + 1)

\* the filter lists: the runs of consecutive names, and the empty list
FilterLists == {lo..hi : lo \in ToolNames, hi \in ToolNames}

\* the tool filters a server configuration can hold
Filters ==
  {NoFilter} \cup
  {[set |-> TRUE, mode |-> m, list |-> l] : m \in Modes, l \in FilterLists}

\* the filters of the units that are bound and unbound
BindFilters ==
  {NoFilter, [set |-> TRUE, mode |-> "allow", list |-> {1}],
             [set |-> TRUE, mode |-> "Block", list |-> {1}]}

\* NewProxyServer: no client, nothing registered
NewProxyServer ==
  /\ psClient = Nil
  /\ registered = [kind \in KindSet |-> {}]
  /\ ppc = "idle"
  /\ pret = [op |-> "none", err |-> NoError]
  /\ cursor = 0
  /\ lastKind = "none"
  /\ fetches = 0
  /\ pages = <<>>
  /\ listed = 0
  /\ attempted = {}
  /\ failedKinds = {}
  /\ binds = 0
  /\ nBound = 0
  /\ nUnbound = 0

(***************************************************************************)
(* The middleware chain of a route: Application.createMiddlewares and      *)
(* chainMiddleware, and the Handle functions of recovery, logger and auth. *)
(* A request walks the chained handler one layer per step.  A string is    *)
(* kept as its parts: a leading word with its blank (scheme), whether a    *)
(* second blank follows it, and the text after that.                       *)
(***************************************************************************)

Schemes    == {"", "Bearer ", "Basic ", "bearer "}
TokenTexts == {"t1", "t2"}
Str(scheme, text, blank) == [scheme |-> scheme, text |-> text, blank |-> blank]

\* the values of r.Header.Get("Authorization"); Str("", "", FALSE) is the
\* empty string of a request without the header.  The server strips the
\* blanks around a header value, so a value does not start with one.
Headers ==
  {h \in [scheme : Schemes, text : TokenTexts \cup {""}, blank : BOOLEAN] :
     h.scheme = "" => ~h.blank}

\* strings.TrimPrefix(s, "Bearer ")
TrimPrefix(s) == IF s.scheme = "Bearer " THEN [s EXCEPT !.scheme = ""] ELSE s

\* strings.TrimSpace: the blanks at both ends go, those inside stay
TrimSpace(s) == IF s.scheme = "" THEN [s EXCEPT !.blank = FALSE] ELSE s

\* the token lists a configuration can hold
AuthTokenSets ==
  { {},
    {Str("", "t1", FALSE)},
    {Str("", "t1", FALSE), Str("", "t2", FALSE)},
    {Str("", "t1", FALSE), Str("Basic ", "t1", FALSE)} }

\* ServerConfig.Options: nil, or LogEnabled (a *bool) and AuthTokens
NoOpts == [set |-> FALSE, logEnabled |-> "nil", authTokens |-> {}]
Opts ==
  {NoOpts} \cup
  [set : {TRUE}, logEnabled : {"nil", "true", "false"}, authTokens : AuthTokenSets]

\* a variant of createMiddlewares that appends the auth middleware always
CreateMiddlewares_AuthAlways(o) ==
  <<"recovery">>
    \o (IF o.set /\ o.logEnabled = "true" THEN <<"logger">> ELSE <<>>)
    \o <<"auth">>

\* createMiddlewares
CreateMiddlewares(o) ==
  <<"recovery">>
    \o (IF o.set /\ o.logEnabled = "true" THEN <<"logger">> ELSE <<>>)
    \o (IF o.set /\ o.authTokens # {} THEN <<"auth">> ELSE <<>>)

\* chainMiddleware's loop from i down to 1: handler = middlewares[i].Handle(handler)
RECURSIVE Wrap(_, _, _)
Wrap(h, middlewares, i) ==
  IF i = 0 THEN h ELSE Wrap(<<middlewares[i]>> \o h, middlewares, i - 1)

\* a variant of chainMiddleware that wraps from the first middleware to the last
RECURSIVE WrapForward(_, _, _)
WrapForward(h, middlewares, i) ==
  IF i > Len(middlewares) THEN h
  ELSE WrapForward(<<middlewares[i]>> \o h, middlewares, i + 1)
ChainMiddleware_FirstInnermost(h, middlewares) == WrapForward(h, middlewares, 1)

\* chainMiddleware
ChainMiddleware(h, middlewares) == Wrap(h, middlewares, Len(middlewares))

\* auth.New: the token set of the route's auth middleware
AuthTokensOf == IF opts.set THEN opts.authTokens ELSE {}

\* what auth.Handle compares with the token set
TokenOf(h) == TrimSpace(TrimPrefix(h))

\* auth.Handle: next.ServeHTTP is called
AuthPasses(h) ==
  \/ AuthTokensOf = {}
  \/ /\ TokenOf(h) # Str("", "", FALSE)
     /\ TokenOf(h) \in AuthTokensOf

\* what a request makes the chain do: the layer in which it panics ("none":
\* nowhere) and whether the endpoint had written its header by then
Behaviours ==
  {[panicAt |-> l, wrote |-> FALSE] : l \in {"none", "logger", "auth", "endpoint"}}
    \cup {[panicAt |-> "endpoint", wrote |-> TRUE]}

\* ResponseWriter.WriteHeader: the first status written stands
WriteHeader(cur, code) == IF cur = 0 THEN code ELSE cur

\* a variant of recovery.Handle without the deferred recover()
Recovers_Never == FALSE

\* a recovery layer is on the stack above the layer the request is in
Recovers == \E i \in 1..(layer - 1) : handler[i] = "recovery"


\* the request enters layer l of the chained handler
Enters(l) ==
  /\ hpc = "run"
  /\ handler[layer] = l
  /\ trace' = Append(trace, l)

\* the layer calls next.ServeHTTP
CallsNext ==
  /\ layer' = layer + 1
  /\ UNCHANGED <<hpc, status, recovered, escaped, panics>>

\* the layer returns with the response `code`, and so does every layer above
Responds(code) ==
  /\ hpc' = "done"
  /\ status' = WriteHeader(status, code)
  /\ UNCHANGED <<layer, recovered, escaped, panics>>

\* the layer panics after the status `cur` was written: the panic unwinds to
\* recovery's deferred function, which calls http.Error with 500, or leaves
\* the chain
Panic(cur) ==
  /\ hpc' = "done"
  /\ panics' = panics + 1
  /\ IF Recovers
       THEN /\ recovered' = TRUE
            /\ status' = WriteHeader(cur, 500)
            /\ UNCHANGED escaped
       ELSE /\ escaped' = TRUE
            /\ status' = cur
            /\ UNCHANGED recovered
  /\ UNCHANGED layer

\* createHTTPServer's task for the route: the middlewares, then the chain
\* around proxyServer.GetHandler()
BuildRoute ==
  /\ hpc = "nochain"
  /\ handler' = ChainMiddleware(<<"endpoint">>, CreateMiddlewares(opts))
  /\ hpc' = "idle"
  /\ UNCHANGED <<opts, layer, header, behave, trace, logged, status, recovered,
                 escaped, reqs, panics>>
  /\ UNCHANGED notHttp

\* a request arrives at the route
NewRequest(h, b) ==
  /\ hpc \in {"idle", "done"}
  /\ ~escaped
  /\ reqs < MaxReqs
  /\ reqs' = reqs + 1
  /\ header' = h
  /\ behave' = b
  /\ hpc' = "run"
  /\ layer' = 1
  /\ trace' = <<>>
  /\ logged' = FALSE
  /\ status' = 0
  /\ recovered' = FALSE
  /\ UNCHANGED <<opts, handler, escaped, panics>>
  /\ UNCHANGED notHttp

\* recovery.Handle: the deferred function is set up, then next.ServeHTTP
RecoveryHandle ==
  /\ Enters("recovery")
  /\ CallsNext
  /\ UNCHANGED <<opts, handler, header, behave, logged, reqs>>
  /\ UNCHANGED notHttp

\* logger.Handle: log.Printf, then next.ServeHTTP
LoggerHandle ==
  /\ Enters("logger")
  /\ IF behave.panicAt = "logger"
       THEN Panic(status) /\ UNCHANGED logged
       ELSE logged' = TRUE /\ CallsNext
  /\ UNCHANGED <<opts, handler, header, behave, reqs>>
  /\ UNCHANGED notHttp

\* auth.Handle
AuthHandle ==
  /\ Enters("auth")
  /\ IF behave.panicAt = "auth"
       THEN Panic(status)
       ELSE IF AuthPasses(header) THEN CallsNext ELSE Responds(401)
  /\ UNCHANGED <<opts, handler, header, behave, logged, reqs>>
  /\ UNCHANGED notHttp

\* proxyServer.GetHandler(): the endpoint answers, or panics before or after
\* it wrote its header
EndpointHandle ==
  /\ Enters("endpoint")
  /\ IF behave.panicAt = "endpoint"
       THEN Panic(IF behave.wrote THEN WriteHeader(status, 200) ELSE status)
       ELSE Responds(200)
  /\ UNCHANGED <<opts, handler, header, behave, logged, reqs>>
  /\ UNCHANGED notHttp

\* a route whose chain is not built yet
InitHttp ==
  /\ opts \in Opts
  /\ handler = <<>>
  /\ hpc = "nochain"
  /\ layer = 0
  /\ header = Str("", "", FALSE)
  /\ behave = [panicAt |-> "none", wrote |-> FALSE]
  /\ trace = <<>>
  /\ logged = FALSE
  /\ status = 0
  /\ recovered = FALSE
  /\ escaped = FALSE
  /\ reqs = 0
  /\ panics = 0

\* the other parts beside a route that is left alone
IdleHttp == InitHttp /\ opts = NoOpts

(***************************************************************************)
(* Application.Run and main: load, validate, create the clients, StartAll, *)
(* createHTTPServer with its errgroup, ListenAndServe in a goroutine, the  *)
(* signal, httpServer.Shutdown, StopAll, return.  StartAll and StopAll are *)
(* the Manager's, taken step by step while Run waits for them.             *)
(***************************************************************************)

\* path.Clean: empty and "." elements dropped, ".." resolved against the
\* element before it (dropped at the root, kept at the head of a relative
\* path), no trailing slash, "." for an empty result
Clean(s) ==
  LET rooted == s # <<>> /\ s[1] = "/"
      words  == SelectSeq(s, LAMBDA t : t # "/")
      RECURSIVE Resolve(_, _)
      Resolve(todo, out) ==
        IF todo = <<>> THEN out
        ELSE IF Head(todo) # ".." THEN Resolve(Tail(todo), Append(out, Head(todo)))
        ELSE IF out # <<>> /\ out[Len(out)] # ".."
          THEN Resolve(Tail(todo), SubSeq(out, 1, Len(out) - 1))
        ELSE IF rooted THEN Resolve(Tail(todo), out)
        ELSE Resolve(Tail(todo), Append(out, ".."))
      RECURSIVE Slashed(_)
      Slashed(ws) ==
        IF Len(ws) <= 1 THEN ws ELSE <<Head(ws), "/">> \o Slashed(Tail(ws))
      kept == Resolve(words, <<>>)
  IN  IF rooted THEN <<"/">> \o Slashed(kept)
      ELSE IF kept = <<>> THEN <<".">>
      ELSE Slashed(kept)

\* path.Join(a, b): the non-empty elements joined by "/" and cleaned; ""
\* when both are empty
Join(a, b) ==
  IF a = <<>> /\ b = <<>> THEN <<>>
  ELSE IF a = <<>> THEN Clean(b)
  ELSE IF b = <<>> THEN Clean(a)
  ELSE Clean(a \o <<"/">> \o b)

\* a variant of the route that is left as path.Join returns it
RouteKey_AsJoined(base, name) ==
  LET joined == Join(base, name)
  IN  IF joined = <<>> THEN <<"/">> ELSE joined

\* mcpRoute: path.Join, "/" put in front if it is missing, "/" put behind if
\* it is missing
RouteKey(base, name) ==
  LET joined == Join(base, name)
      front  == IF joined # <<>> /\ Head(joined) = "/"
                  THEN joined ELSE <<"/">> \o joined
  IN  IF front[Len(front)] = "/" THEN front ELSE Append(front, "/")

\* the keys of the two entries of mcpServers as the file spells them: two
\* different non-empty strings
PlainSpelling == [n \in Names |-> IF n = "a" THEN <<"github">> ELSE <<"api">>]
Spellings ==
  {sp \in [Names -> {<<"github">>, <<"github", "/">>, <<"api">>}] :
     sp["a"] # sp["b"]}

\* What the config path leads to: whether Load and Validate succeed, the
\* names under mcpServers, those whose transport the factory does not know
\* (Validate lets an empty Transport through), and options.panicIfInvalid.
Configs ==
  {c \in [loads : BOOLEAN, valid : BOOLEAN, servers : SUBSET Names,
          unsupported : SUBSET {"b"}, baseURLOk : BOOLEAN,
          panicIfInvalid : {"true", "false"}, spell : Spellings] :
     /\ c.unsupported \subseteq c.servers
     /\ (~c.loads \/ ~c.valid \/ c.servers # Names) => c.spell = PlainSpelling
     /\ (~c.loads \/ ~c.valid) =>
          (c.servers = Names /\ c.unsupported = {} /\ c.baseURLOk
             /\ c.panicIfInvalid = "true")
     /\ (~c.baseURLOk \/ c.unsupported # {}) => c.panicIfInvalid = "true"}

\* Run returns: its result, and main's exit status (log.Fatalf on an error)
RunReturns(err) ==
  /\ apc' = "Returned"
  /\ runRet' = err
  /\ exitCode' = IF err = NoError THEN 0 ELSE 1

\* Run goes on to its next statement
RunGoes(next) ==
  /\ apc' = next
  /\ UNCHANGED <<runRet, exitCode>>

\* a variant of Run that goes on when Validate returned an error
ValidateFails_Ignored == cfg # cfg

\* app.configProvider.Validate(config) returned an error
ValidateFails == ~cfg.valid

\* app.configProvider.Load
RunLoad ==
  /\ apc = "Load"
  /\ IF cfg.loads THEN RunGoes("Validate") ELSE RunReturns("load")
  /\ UNCHANGED <<cfg, btask, routes, listener, shutdownErr>>
  /\ UNCHANGED notApp

\* app.configProvider.Validate
RunValidate ==
  /\ apc = "Validate"
  /\ IF ValidateFails THEN RunReturns("validate") ELSE RunGoes("CreateClients")
  /\ UNCHANGED <<cfg, btask, routes, listener, shutdownErr>>
  /\ UNCHANGED notApp

\* the names of the config that have no client yet
ToCreate == {n \in cfg.servers : clients[n] = Nil}

\* one turn of the loop over config.Servers: CreateClient, then AddClient
RunCreateClient(o) ==
  /\ apc = "CreateClients"
  /\ NameOf(o) \in ToCreate \ cfg.unsupported
  /\ AddClient(o)

\* CreateClient returns `unsupported client type`
RunCreateFails ==
  /\ apc = "CreateClients"
  /\ ToCreate \cap cfg.unsupported # {}
  /\ RunReturns("create")
  /\ UNCHANGED <<cfg, btask, routes, listener, shutdownErr>>
  /\ UNCHANGED notApp

\* the loop is over
RunCreated ==
  /\ apc = "CreateClients"
  /\ ToCreate = {}
  /\ RunGoes("StartAll")
  /\ UNCHANGED <<cfg, btask, routes, listener, shutdownErr>>
  /\ UNCHANGED notApp

\* app.clientManager.StartAll(ctx, clientInfo) is called
RunStartAll ==
  /\ apc = "StartAll"
  /\ calls = <<>>
  /\ StartAllBegin

\* the goroutines of that StartAll, and its return to Run
RunConnectEnter(n)  == apc = "StartAll" /\ ConnectEnter(n)
RunConnectCreate(n) == apc = "StartAll" /\ ConnectCreate(n)
RunConnectStart(n)  == apc = "StartAll" /\ ConnectStart(n)
RunConnectInit(n)   == apc = "StartAll" /\ ConnectInit(n)
RunStartAllReturn   == apc = "StartAll" /\ StartAllReturn

\* a variant of Run that goes on after StartAll returned an error
StartAllAborts_Never == ret # ret

\* `if err := app.clientManager.StartAll(...); err != nil { return err }`
StartAllAborts == ret.err # NoError

\* Run has StartAll's result
RunStarted ==
  /\ apc = "StartAll"
  /\ mpc = "idle"
  /\ ret.op = "StartAll"
  /\ IF StartAllAborts THEN RunReturns("startall") ELSE RunGoes("BuildRoutes")
  /\ UNCHANGED <<cfg, btask, routes, listener, shutdownErr>>
  /\ UNCHANGED notApp


\* createHTTPServer: url.Parse, then one errgroup task per client of
\* GetClients()
RunBuildRoutes ==
  /\ apc = "BuildRoutes"
  /\ IF ~cfg.baseURLOk
       THEN /\ RunReturns("build")
            /\ UNCHANGED btask
       ELSE /\ RunGoes("Building")
            /\ btask' = [n \in Names |-> IF clients[n] # Nil THEN "run" ELSE "none"]
  /\ UNCHANGED <<cfg, routes, listener, shutdownErr>>
  /\ UNCHANGED notApp

\* mcpRoute of upstream n, under the base path of the README's example
MountKey(n) == RouteKey(<<"/", "api">>, cfg.spell[n])

\* a variant of ServeMux.Handle that accepts a pattern it already holds
MuxHolds_Never(key) == key # key

\* ServeMux.Handle finds the pattern registered: it panics
MuxHolds(key) == \E m \in routes : MountKey(m) = key

\* the task of upstream n: NewProxyServer and RegisterClient, either of which
\* can fail, then createMiddlewares, chainMiddleware and mux.Handle; a panic
\* of mux.Handle in the task's goroutine ends the process (exit status 2)
BuildTask(n) ==
  /\ apc = "Building"
  /\ btask[n] = "run"
  /\ \E ok \in BOOLEAN :
       IF ok /\ MuxHolds(MountKey(n))
         THEN /\ btask' = [btask EXCEPT ![n] = "panic"]
              /\ apc' = "Panicked"
              /\ exitCode' = 2
              /\ UNCHANGED <<runRet, routes>>
         ELSE /\ btask' = [btask EXCEPT ![n] = IF ok THEN "ok" ELSE "err"]
              /\ routes' = IF ok THEN routes \cup {n} ELSE routes
              /\ UNCHANGED <<apc, runRet, exitCode>>
  /\ UNCHANGED <<cfg, listener, shutdownErr>>
  /\ UNCHANGED notApp

\* errorGroup.Wait(): every task has returned
GroupDone == \A n \in Names : btask[n] # "run"

\* a variant of createHTTPServer that drops the error of Wait
GroupFailed_Dropped == btask # btask

\* errorGroup.Wait() returns an error
GroupFailed == \E n \in Names : btask[n] = "err"

\* createHTTPServer returns; on success Run starts the goroutine that calls
\* ListenAndServe and waits for a signal
RunBuilt ==
  /\ apc = "Building"
  /\ GroupDone
  /\ IF GroupFailed THEN RunReturns("build") ELSE RunGoes("Serving")
  /\ UNCHANGED <<cfg, btask, routes, listener, shutdownErr>>
  /\ UNCHANGED notApp

\* the goroutine's ListenAndServe has bound the address
ListenStarts ==
  /\ apc \in {"Serving", "Signalled"}
  /\ listener = "none"
  /\ listener' = "accepting"
  /\ UNCHANGED <<cfg, apc, runRet, exitCode, btask, routes, shutdownErr>>
  /\ UNCHANGED notApp

\* ListenAndServe returns an error that is not ErrServerClosed: log.Fatalf
ListenFails ==
  /\ apc \in {"Serving", "Signalled"}
  /\ listener = "none"
  /\ apc' = "Exited"
  /\ exitCode' = 1
  /\ UNCHANGED <<cfg, runRet, btask, routes, listener, shutdownErr>>
  /\ UNCHANGED notApp

\* `<-sigChan`: SIGINT or SIGTERM
Signal ==
  /\ apc = "Serving"
  /\ RunGoes("Signalled")
  /\ UNCHANGED <<cfg, btask, routes, listener, shutdownErr>>
  /\ UNCHANGED notApp

\* httpServer.Shutdown(shutdownCtx) closes the listener ...
ShutdownCalled ==
  /\ apc = "Signalled"
  /\ listener' = "closed"
  /\ RunGoes("Draining")
  /\ UNCHANGED <<cfg, btask, routes, shutdownErr>>
  /\ UNCHANGED notApp

\* a variant of Run that returns when Shutdown returned an error
AfterShutdown_ReturnOnError(err) == IF err = NoError THEN "StopAll" ELSE "Returned"

\* Run's statement after Shutdown: the error is logged, StopAll comes next
AfterShutdown(err) == "StopAll"

\* ... and returns when the connections are idle (nil) or when the 5 s of
\* shutdownCtx are over (its error)
ShutdownReturns ==
  /\ apc = "Draining"
  /\ \E err \in {NoError, "deadline"} :
       /\ shutdownErr' = err
       /\ IF AfterShutdown(err) = "Returned"
            THEN RunReturns(NoError)
            ELSE RunGoes(AfterShutdown(err))
  /\ UNCHANGED <<cfg, btask, routes, listener>>
  /\ UNCHANGED notApp

\* app.clientManager.StopAll() is called
RunStopAll ==
  /\ apc = "StopAll"
  /\ calls = <<"StartAll">>
  /\ StopAllBegin

\* Close() of the underlying client does not return
DisconnectHangs(n) ==
  /\ ~crashed
  /\ mpc = "stopping"
  /\ tpc[n] = "d_run"
  /\ connected[snapshot[n]]
  /\ tpc' = [tpc EXCEPT ![n] = "d_hung"]
  /\ disconnectCalls' = [disconnectCalls EXCEPT ![snapshot[n]] = @ + 1]
  /\ UNCHANGED <<regVars, connVars, mpc, snapshot, tres, errChan, connectCalls,
                 ret, calls, crashed>>
  /\ UNCHANGED notMgr

\* the goroutines of that StopAll, and its return to Run
RunDisconnectTask(n)  == apc = "StopAll" /\ DisconnectTask(n)
RunDisconnectHangs(n) == apc = "StopAll" /\ DisconnectHangs(n)
RunStopAllReturn      == apc = "StopAll" /\ StopAllReturn

\* Run has StopAll's result and returns nil
RunStopped ==
  /\ apc = "StopAll"
  /\ mpc = "idle"
  /\ ret.op = "StopAll"
  /\ RunReturns(NoError)
  /\ UNCHANGED <<cfg, btask, routes, listener, shutdownErr>>
  /\ UNCHANGED notApp

\* app.New(): nothing has run yet
InitApp ==
  /\ cfg \in Configs
  /\ apc = "Load"
  /\ runRet = "running"
  /\ exitCode = -1
  /\ btask = [n \in Names |-> "none"]
  /\ routes = {}
  /\ listener = "none"
  /\ shutdownErr = NoError

\* the other parts beside an application that is not run
IdleApp == InitApp /\ cfg = [loads |-> TRUE, valid |-> TRUE, servers |-> {},
                             unsupported |-> {}, baseURLOk |-> TRUE,
                             spell |-> PlainSpelling,
                             panicIfInvalid |-> "true"]

(***************************************************************************)
(* config.Provider.Load: setDefaults and inheritProxyDefaults, on the      *)
(* options of the proxy and of one upstream.                               *)
(***************************************************************************)

\* a nil pointer or nil slice: the field is absent from the JSON (an upstream
\* without "options" gets an OptionsConfig with every field unset)
Unset == "unset"

\* OptionsConfig: two *bool, the token list ("none": an empty list) and the
\* tool filter
Options ==
  [panicIfInvalid : {Unset, "true", "false"},
   logEnabled     : {Unset, "true", "false"},
   authTokens     : {Unset, "none", "t1"},
   toolFilter     : {Unset, "allow-list", "block-list"}]

\* inheritProxyDefaults: three `if serverOptions.X == nil` assignments
inheritProxyDefaults(serverOptions, proxyOptions) ==
  [serverOptions EXCEPT
     !.authTokens     = IF @ = Unset THEN proxyOptions.authTokens ELSE @,
     !.panicIfInvalid = IF @ = Unset THEN proxyOptions.panicIfInvalid ELSE @,
     !.logEnabled     = IF @ = Unset THEN proxyOptions.logEnabled ELSE @]

\* Load: the file is parsed, then setDefaults runs over config.Servers
Load ==
  /\ ~loaded
  /\ effOpts' = inheritProxyDefaults(srvOpts, proxyOpts)
  /\ loaded' = TRUE
  /\ UNCHANGED <<proxyOpts, srvOpts, basePath, upName, mcpRoute>>
  /\ UNCHANGED <<mgrVars, pxVars, httpVars, appVars, useVars, seqVars>>

\* a config file with some options for the proxy and for the upstream
InitLoad ==
  /\ proxyOpts \in Options
  /\ srvOpts \in Options
  /\ effOpts = srvOpts
  /\ loaded = FALSE

\* the other parts beside a Load that is not looked at
IdleLoad ==
  /\ InitLoad
  /\ proxyOpts = [panicIfInvalid |-> Unset, logEnabled |-> Unset,
                  authTokens |-> Unset, toolFilter |-> Unset]
  /\ srvOpts = proxyOpts

(***************************************************************************)
(* The route of an upstream (createHTTPServer): path.Join of the base path *)
(* and the name, then the two fixes of its ends.  A string is kept as the  *)
(* sequence of its parts: "/" and the words between the slashes.           *)
(***************************************************************************)

\* the strings a base path or a name can be: no two words without a "/"
\* between them (they would be one word)
Paths ==
  {s \in UNION {[1..k -> {"/", "api", "github", ".."}] : k \in 0..MaxPathLen} :
     \A i \in 1..(Len(s) - 1) : s[i] = "/" \/ s[i + 1] = "/"}

\* the route of the upstream is computed and mounted
MountRoute ==
  /\ mcpRoute = <<>>
  /\ mcpRoute' = RouteKey(basePath, upName)
  /\ UNCHANGED <<proxyOpts, srvOpts, effOpts, loaded, basePath, upName>>
  /\ UNCHANGED <<mgrVars, pxVars, httpVars, appVars, useVars, seqVars>>

\* a base path and a name (Validate refuses an empty name)
InitRoute ==
  /\ basePath \in Paths
  /\ upName \in Paths \ {<<>>}
  /\ mcpRoute = <<>>

\* the other parts beside a route that is not looked at
IdleRoute == InitRoute /\ basePath = <<>> /\ upName = <<"github">>

(***************************************************************************)
(* The three variants under one caller: the same Connect, Disconnect and   *)
(* catalog / health calls are made on every connection, one call after the *)
(* other, and the transport behaves the same way towards each.             *)
(***************************************************************************)

\* what the transport does to a Connect: it works, or the client cannot be
\* created, or the transport cannot be started, or Initialize fails
Faults == {"none", "create", "start", "init"}

\* the statement of Connect at which the fault shows: the stdio variant has
\* no Start, NewStdioMCPClient starts the subprocess itself
FailsAt(o, fault) ==
  IF fault = "start" /\ TypeOf(o) = "stdio" THEN "create" ELSE fault

\* a variant in which only sse and streamable clear connected when
\* Initialize fails
ClearsOnInitError_NotStdio(o) == TypeOf(o) # "stdio"

\* `if err != nil { c.connected = false; return ... }` after Initialize
ClearsOnInitError(o) == TRUE

\* Connect from entry to return, on a connection nobody else is using
ConnectRuns(o, fault) ==
  IF connected[o]
    THEN [connected |-> TRUE, client |-> client[o], opened |-> 0, pings |-> 0,
          err |-> NoError]
  ELSE IF FailsAt(o, fault) = "create"
    THEN [connected |-> FALSE, client |-> client[o], opened |-> 0, pings |-> 0,
          err |-> "create"]
  ELSE IF FailsAt(o, fault) = "start"
    THEN [connected |-> FALSE, client |-> TRUE, opened |-> 1, pings |-> 0,
          err |-> "start"]
  ELSE IF FailsAt(o, fault) = "init"
    THEN [connected |-> ~ClearsOnInitError(o), client |-> TRUE, opened |-> 1,
          pings |-> 0, err |-> "init"]
  ELSE [connected |-> TRUE, client |-> TRUE, opened |-> 1,
        pings |-> IF NeedsPing(o) THEN 1 ELSE 0, err |-> NoError]

\* Connect is called on every connection
ConnectEach(fault) ==
  /\ steps < MaxSteps
  /\ steps' = steps + 1
  /\ connected' = [o \in Conns |-> ConnectRuns(o, fault).connected]
  /\ client' = [o \in Conns |-> ConnectRuns(o, fault).client]
  /\ openHandles' = [o \in Conns |-> openHandles[o] + ConnectRuns(o, fault).opened]
  /\ pingTasks' = [o \in Conns |-> pingTasks[o] + ConnectRuns(o, fault).pings]
  /\ life' = [o \in Conns |->
               IF ConnectRuns(o, fault).err = NoError THEN "connected" ELSE "down"]
  /\ outcome' = [o \in Conns |->
                  IF ConnectRuns(o, fault).err = NoError THEN NoError ELSE "failed"]
  /\ UNCHANGED <<regVars, callVars, crashed>>
  /\ UNCHANGED notSeq

\* Disconnect is called on every connection
DisconnectEach(closeOk) ==
  /\ steps < MaxSteps
  /\ steps' = steps + 1
  /\ connected' = [o \in Conns |-> IF DisconnectSkips(o) THEN connected[o] ELSE FALSE]
  /\ client' = [o \in Conns |-> IF DisconnectSkips(o) THEN client[o] ELSE FALSE]
  /\ openHandles' = [o \in Conns |->
                      IF DisconnectSkips(o) THEN openHandles[o]
                      ELSE openHandles[o] - 1]
  /\ life' = [o \in Conns |-> "down"]
  /\ outcome' = [o \in Conns |->
                  IF DisconnectFails(o, closeOk) THEN "close failed" ELSE NoError]
  /\ UNCHANGED <<regVars, pingTasks, callVars, crashed>>
  /\ UNCHANGED notSeq

\* a catalog or health call is made on every connection
CallEach(op) ==
  /\ steps < MaxSteps
  /\ steps' = steps + 1
  /\ outcome' = [o \in Conns |->
                  IF NotConnected(o) THEN ErrNotConnected ELSE NoError]
  /\ UNCHANGED mgrVars
  /\ UNCHANGED notSeq

\* A call (or the tick of the ping task) reads connected and client, finds
\* the connection up and is about to call c.client.X; nothing orders the two
\* reads of c.client with the writes of a Disconnect in another goroutine.
CallChecks(o) ==
  /\ ~crashed
  /\ steps < MaxSteps
  /\ outcome[o] # "checked"
  /\ steps' = steps + 1
  /\ outcome' = [outcome EXCEPT ![o] =
                   IF NotConnected(o) THEN ErrNotConnected ELSE "checked"]
  /\ UNCHANGED mgrVars
  /\ UNCHANGED notSeq

\* c.client.X(ctx, ...): on the handle that is still there, or after a
\* Disconnect on nil (the method panics) or on the closed handle the racing
\* read still returned
CallUses(o) ==
  /\ ~crashed
  /\ outcome[o] = "checked"
  /\ IF client[o]
       THEN /\ outcome' = [outcome EXCEPT ![o] = NoError]
            /\ UNCHANGED crashed
       ELSE \/ /\ outcome' = [outcome EXCEPT ![o] = "nil dereference"]
               /\ crashed' = TRUE
            \/ /\ outcome' = [outcome EXCEPT ![o] = "closed handle"]
               /\ UNCHANGED crashed
  /\ UNCHANGED <<regVars, connVars, callVars, steps>>
  /\ UNCHANGED notSeq

\* Disconnect in another goroutine (StopAll's, RemoveClient's)
DisconnectRuns(o, closeOk) ==
  /\ ~crashed
  /\ steps < MaxSteps
  /\ steps' = steps + 1
  /\ Disconnect(o, closeOk)
  /\ UNCHANGED <<regVars, callVars, crashed, outcome>>
  /\ UNCHANGED notSeq

\* no call made yet
IdleSeq ==
  /\ outcome = [o \in Conns |-> "none"]
  /\ steps = 0

(***************************************************************************)
(* The specifications.                                                     *)
(***************************************************************************)

InitMgr ==
  /\ clients = [n \in Names |-> Nil]
  /\ created = {}
  /\ connected = [o \in Conns |-> FALSE]
  /\ client = [o \in Conns |-> FALSE]
  /\ openHandles = NoCalls
  /\ pingTasks = NoCalls
  /\ life = [o \in Conns |-> "down"]
  /\ opRet = NoOp
  /\ regRet = [op |-> "none", err |-> NoError, logged |-> FALSE]
  /\ mutex = [w |-> FALSE, r |-> 0]
  /\ ctxDone = FALSE
  /\ ptask = [o \in Conns |-> [ended |-> 0, seen |-> 0, pings |-> 0,
                                late |-> FALSE]]
  /\ got = [has |-> FALSE, shared |-> FALSE, map |-> [n \in Names |-> Nil]]
  /\ lpc = [t \in Threads |-> "idle"]
  /\ mpc = "idle"
  /\ snapshot = [n \in Names |-> Nil]
  /\ tpc = NoTasks
  /\ tres = NoTasks
  /\ errChan = <<>>
  /\ connectCalls = NoCalls
  /\ disconnectCalls = NoCalls
  /\ ret = [op |-> "none", err |-> NoError]
  /\ calls = <<>>
  /\ crashed = FALSE

NextMgr ==
  \/ \E o \in Conns : AddClient(o)
  \/ \E n \in Names : RemoveClient(n)
  \/ StartAllBegin
  \/ \E n \in Names : ConnectEnter(n)
  \/ \E n \in Names : ConnectCreate(n)
  \/ \E n \in Names : ConnectStart(n)
  \/ \E n \in Names : ConnectInit(n)
  \/ StartAllReturn
  \/ StopAllBegin
  \/ \E n \in Names : DisconnectTask(n)
  \/ StopAllReturn

NextSeq ==
  \/ \E fault \in Faults : ConnectEach(fault)
  \/ \E closeOk \in BOOLEAN : DisconnectEach(closeOk)
  \/ \E op \in Ops : CallEach(op)

NextRace ==
  \/ \E fault \in Faults :
       (\A o \in Conns : outcome[o] # "checked") /\ ~crashed /\ ConnectEach(fault)
  \/ \E o \in Conns : CallChecks(o)
  \/ \E o \in Conns : CallUses(o)
  \/ \E o \in Conns, closeOk \in BOOLEAN : DisconnectRuns(o, closeOk)

\* StartAll and StopAll and, between them, operations on the connections
NextConn ==
  \/ \E o \in Conns : opRet = NoOp /\ AddClient(o)
  \/ opRet = NoOp /\ StartAllBegin
  \/ \E n \in Names : ConnectEnter(n)
  \/ \E n \in Names : ConnectCreate(n)
  \/ \E n \in Names : ConnectStart(n)
  \/ \E n \in Names : ConnectInit(n)
  \/ StartAllReturn
  \/ opRet = NoOp /\ StopAllBegin
  \/ \E n \in Names : DisconnectTask(n)
  \/ StopAllReturn
  \/ \E o \in Conns, op \in Ops : CallOp(o, op)
  \/ OpReturns

\* a caller of the registry between StartAll calls
NextReg ==
  \/ \E o \in Conns : mpc = "idle" /\ AddClientCall(o)
  \/ \E n \in Names : mpc = "idle" /\ RemoveClientCall(n)
  \/ StartAllBegin
  \/ \E n \in Names : ConnectEnter(n)
  \/ \E n \in Names : ConnectCreate(n)
  \/ \E n \in Names : ConnectStart(n)
  \/ \E n \in Names : ConnectInit(n)
  \/ StartAllReturn

\* goroutines calling the registry's methods concurrently
NextLock ==
  \/ \E t \in Threads, op \in RegOps : LockAcquire(t, op)
  \/ \E t \in Threads : Unlock(t)

\* a caller that keeps and edits the map GetClients returned
NextCopy ==
  \/ \E o \in Conns : AddClientCall(o)
  \/ \E n \in Names : RemoveClientCall(n)
  \/ GetClientsCall
  \/ \E n \in Names, v \in Conns \cup {Nil} : GotEdit(n, v)

\* StartAll / StopAll with the ping tasks they leave behind and the context
NextPing ==
  \/ \E o \in Conns : AddClient(o)
  \/ StartAllBegin
  \/ \E n \in Names : ConnectEnter(n)
  \/ \E n \in Names : ConnectCreate(n)
  \/ \E n \in Names : ConnectStart(n)
  \/ \E n \in Names : ConnectInit(n)
  \/ StartAllReturn
  \/ StopAllBegin
  \/ \E n \in Names : DisconnectTask(n)
  \/ StopAllReturn
  \/ CancelCtx
  \/ \E o \in Conns, seen \in BOOLEAN : PingTick(o, seen)
  \/ \E o \in Conns : PingDone(o)

NextTools ==
  \/ AddToolsCall
  \/ ToolsPage

NextProxy ==
  \/ \E c \in Ups : RegisterClient(c)
  \/ \E kind \in KindSet : BindPage(kind)
  \/ UnregisterClient

NextHttp ==
  \/ BuildRoute
  \/ \E h \in Headers, b \in Behaviours : NewRequest(h, b)
  \/ RecoveryHandle
  \/ LoggerHandle
  \/ AuthHandle
  \/ EndpointHandle

NextApp ==
  \/ RunLoad
  \/ RunValidate
  \/ \E o \in Conns : RunCreateClient(o)
  \/ RunCreateFails
  \/ RunCreated
  \/ RunStartAll
  \/ \E n \in Names : RunConnectEnter(n)
  \/ \E n \in Names : RunConnectCreate(n)
  \/ \E n \in Names : RunConnectStart(n)
  \/ \E n \in Names : RunConnectInit(n)
  \/ RunStartAllReturn
  \/ RunStarted
  \/ RunBuildRoutes
  \/ \E n \in Names : BuildTask(n)
  \/ RunBuilt
  \/ ListenStarts
  \/ ListenFails
  \/ Signal
  \/ ShutdownCalled
  \/ ShutdownReturns
  \/ RunStopAll
  \/ \E n \in Names : RunDisconnectTask(n)
  \/ \E n \in Names : RunDisconnectHangs(n)
  \/ RunStopAllReturn
  \/ RunStopped

InitSpecMgr   == InitMgr /\ NewProxyServer /\ IdleSeq /\ filter = NoFilter /\ IdleHttp /\ IdleApp /\ IdleLoad /\ IdleRoute
InitSpecTools == InitMgr /\ NewProxyServer /\ IdleSeq /\ filter \in Filters /\ IdleHttp /\ IdleApp /\ IdleLoad /\ IdleRoute
InitSpecProxy == InitMgr /\ NewProxyServer /\ IdleSeq /\ filter \in BindFilters /\ IdleHttp /\ IdleApp /\ IdleLoad /\ IdleRoute
InitSpecHttp  == InitMgr /\ NewProxyServer /\ IdleSeq /\ filter = NoFilter /\ InitHttp /\ IdleApp /\ IdleLoad /\ IdleRoute
InitSpecApp   == InitMgr /\ NewProxyServer /\ IdleSeq /\ filter = NoFilter /\ IdleHttp /\ InitApp /\ IdleLoad /\ IdleRoute

\* the Manager, beside a proxy unit that is left alone
SpecMgr == InitSpecMgr /\ [][NextMgr]_vars

SpecConn == InitSpecMgr /\ [][NextConn]_vars

\* the three variants driven by the same calls
SpecSeq == InitSpecMgr /\ [][NextSeq]_vars

\* calls on the connections while another goroutine disconnects them
SpecRace == InitSpecMgr /\ [][NextRace]_vars

SpecReg == InitSpecMgr /\ [][NextReg]_vars

SpecLock == InitSpecMgr /\ [][NextLock]_vars

SpecCopy == InitSpecMgr /\ [][NextCopy]_vars

InitSpecLoad == InitMgr /\ NewProxyServer /\ IdleSeq /\ filter = NoFilter /\ IdleHttp /\ IdleApp /\ InitLoad /\ IdleRoute
SpecLoad == InitSpecLoad /\ [][Load]_vars

InitSpecRoute == InitMgr /\ NewProxyServer /\ IdleSeq /\ filter = NoFilter /\ IdleHttp /\ IdleApp /\ IdleLoad /\ InitRoute
SpecRoute == InitSpecRoute /\ [][MountRoute]_vars

SpecPing == InitSpecMgr /\ [][NextPing]_vars

\* a goroutine blocked in select with ctx.Done() closed is scheduled
SpecPingLive == SpecPing /\ \A o \in Conns : WF_vars(PingDone(o))

\* addTools on a new proxy unit, under every filter
SpecTools == InitSpecTools /\ [][NextTools]_vars

\* a proxy unit that is bound and unbound
SpecProxy == InitSpecProxy /\ [][NextProxy]_vars

\* requests through the middleware chain of one route, under every Options
SpecHttp == InitSpecHttp /\ [][NextHttp]_vars

\* Application.Run, once, from the config to its return
SpecApp == InitSpecApp /\ [][NextApp]_vars

\* the same, with every goroutine and Run itself scheduled again and again
SpecAppLive == SpecApp /\ WF_vars(NextApp)

(***************************************************************************)
(* Properties of StartAll and StopAll (checked under SpecMgr).             *)
(***************************************************************************)

Returned(op) == mpc = "idle" /\ ret.op = op

InSnapshot == {n \in Names : snapshot[n] # Nil}

Failed == {n \in InSnapshot : tres[n] = "err"}

\* C1: when StartAll has returned, every goroutine of its snapshot has returned,
\* Connect was invoked exactly once on every connection of the snapshot and on
\* no other, and every task ran to its own result whatever its siblings did.
C1_StartAllConnectsEachOnce ==
  Returned("StartAll") =>
    /\ \A n \in InSnapshot :
         /\ tpc[n] = "done"
         /\ tres[n] \in {"ok", "err"}
         /\ connectCalls[snapshot[n]] = 1
    /\ \A o \in Conns :
         (\A n \in Names : snapshot[n] # o) => connectCalls[o] = 0

\* StartAll has returned from a snapshot of two connections of which one failed
\* to connect and the other connected
C1_Witness ==
  /\ Returned("StartAll")
  /\ \E n, m \in InSnapshot :
       /\ tres[n] = "err"
       /\ tres[m] = "ok"
       /\ connected[snapshot[m]]
       /\ connectCalls[snapshot[n]] = 1
       /\ connectCalls[snapshot[m]] = 1

\* C2: StartAll returns an error exactly when some Connect failed; no failure
\* is dropped by the non-blocking send; the error returned names a connection
\* whose Connect failed; an empty snapshot returns nil and connects nothing.
C2_StartAllErrorIffFailure ==
  Returned("StartAll") =>
    /\ (ret.err # NoError) <=> (Failed # {})
    /\ Len(errChan) = Cardinality(Failed)
    /\ \A i \in 1..Len(errChan) : errChan[i] \in Failed
    /\ ret.err # NoError => ret.err \in Failed
    /\ InSnapshot = {} =>
         (ret.err = NoError /\ \A o \in Conns : connectCalls[o] = 0)

\* StartAll has returned an error after two Connects failed
C2_Witness ==
  /\ Returned("StartAll")
  /\ Cardinality(Failed) = 2
  /\ Len(errChan) = 2
  /\ ret.err = errChan[1]

\* C3: when StopAll has returned, Disconnect was invoked once on every
\* connection of its snapshot, every goroutine has returned, and the result is
\* nil whatever Disconnect calls failed.
C3_StopAllAlwaysSucceeds ==
  Returned("StopAll") =>
    /\ ret.err = NoError
    /\ \A n \in InSnapshot :
         /\ tpc[n] = "done"
         /\ disconnectCalls[snapshot[n]] = 1

\* StopAll has returned although a Disconnect failed
C3_Witness ==
  /\ Returned("StopAll")
  /\ Cardinality(InSnapshot) = 2
  /\ Failed # {}

\* the last two calls that returned are StartAll, then StopAll
StartedThenStopped ==
  /\ mpc = "idle"
  /\ Len(calls) >= 2
  /\ calls[Len(calls) - 1] = "StartAll"
  /\ calls[Len(calls)] = "StopAll"

\* C4: once StartAll has returned and a following StopAll has returned, every
\* connection in the registry is disconnected.
C4_AllDisconnectedAfterStop ==
  StartedThenStopped =>
    \A n \in Names : clients[n] # Nil => ~connected[clients[n]]

\* StartAll then StopAll have returned, and a connection still in the registry
\* had been connected: its Close() failed during StopAll
C4_Witness ==
  /\ StartedThenStopped
  /\ \E n \in Names :
       /\ clients[n] # Nil
       /\ snapshot[n] = clients[n]
       /\ tres[n] = "err"

(***************************************************************************)
(* Properties of RegisterClient and UnregisterClient (checked under        *)
(* SpecProxy) and of addTools (checked under SpecTools).                   *)
(***************************************************************************)

\* a step that is a call of RegisterClient
RegisterClientStep == binds' = binds + 1

\* C5: a RegisterClient on a proxy unit whose client is set fails with the
\* already-registered error, enters no catalog loop, issues no list call,
\* registers nothing and leaves ps.client as it was.
C5_SecondBindFails ==
  [][(RegisterClientStep /\ psClient # Nil) =>
       /\ pret' = [op |-> "RegisterClient", err |-> "already"]
       /\ psClient' = psClient
       /\ registered' = registered
       /\ ppc' = "idle"
       /\ fetches' = fetches
       /\ attempted' = attempted]_vars

\* a second RegisterClient was refused on a unit bound by a first that
\* succeeded and registered a tool
C5_Witness ==
  /\ pret = [op |-> "RegisterClient", err |-> "already"]
  /\ psClient # Nil
  /\ binds = 2
  /\ nBound = 1
  /\ registered["tools"] # {}

AddToolsDone == ppc = "idle" /\ pret = [op |-> "addTools", err |-> NoError]

\* T: the tools the upstream listed to the call; L: the configured filter list
ListedTools == 1..listed
FilterList  == IF filter.set THEN filter.list ELSE {}

\* C7: when addTools has returned nil, the tools registered are T \cap L under
\* an allow filter, T \ L under a block filter (the mode in any letter case),
\* and T when no filter is configured or its list is empty, whatever the mode.
C7_ToolFilterResult ==
  AddToolsDone =>
    /\ FilterList = {} => registered["tools"] = ListedTools
    /\ (FilterList # {} /\ filter.mode \in {"allow", "ALLOW"}) =>
         registered["tools"] = ListedTools \cap FilterList
    /\ (FilterList # {} /\ filter.mode \in {"block", "Block"}) =>
         registered["tools"] = ListedTools \ FilterList

\* addTools has returned after three pages under an upper-case allow filter
\* whose list holds some of the listed tools and a tool that was never listed
C7_Witness ==
  /\ AddToolsDone
  /\ filter.set
  /\ filter.mode = "ALLOW"
  /\ fetches = 3
  /\ listed = 5
  /\ filter.list = 4..6
  /\ registered["tools"] = {4, 5}

\* the items listed so far for a kind that its loop passes on to the endpoint
Kept(kind) == {i \in 1..listed : kind # "tools" \/ FilterFunc(i)}

\* the first RegisterClient of the unit is under way or has returned
FirstBind == binds = 1 /\ lastKind \in KindSet

\* C8 as the specification states it: nothing of a kind is registered until the
\* kind's last page has been fetched, and nothing of a kind whose list call
\* failed.
C8_NothingBeforeLastPage ==
  (FirstBind /\ (ppc = lastKind \/ lastKind \in failedKinds)) =>
     registered[lastKind] = {}

\* C8: every page is registered as soon as it is fetched: at every point of a
\* kind's loop the items listed so far (for tools, those the filter passes) are
\* registered, and they stay registered when a later list call fails.
C8_PagesRegisteredAsFetched ==
  /\ lastKind \in KindSet => Kept(lastKind) \subseteq registered[lastKind]
  /\ FirstBind => registered[lastKind] = Kept(lastKind)

\* the second list call for prompts failed and the prompt of the first page is
\* registered
C8_Witness ==
  /\ FirstBind
  /\ lastKind = "prompts"
  /\ "prompts" \in failedKinds
  /\ fetches = 2
  /\ Len(pages) = 1
  /\ registered["prompts"] = {1}

\* the sizes of the pages a loop was served, and their total
RECURSIVE SumSizes(_)
SumSizes(p) == IF p = <<>> THEN 0 ELSE p[1].size + SumSizes(Tail(p))
PageSizesOf(p) == [i \in 1..Len(p) |-> p[i].size]

\* a page at which the loop stops
StopsAt(page) == page.size = 0 \/ ~page.more

\* the catalog of four pages of 2, 2, 1 and 0 items, each page but the last
\* with a cursor to the next
Served2210 ==
  /\ PageSizesOf(pages) = <<2, 2, 1, 0>>
  /\ \A i \in 1..3 : pages[i].more

\* C9 as the specification states it: the loop stops at the first page with no
\* items or no cursor with every item fetched registered, and for the pages
\* 2, 2, 1, 0 it issues exactly 3 list calls and registers exactly 5 items.
C9_ThreeFetchesFor2210 ==
  (AddToolsDone /\ ~filter.set) =>
    /\ StopsAt(pages[Len(pages)])
    /\ \A i \in 1..(Len(pages) - 1) : ~StopsAt(pages[i])
    /\ Cardinality(registered["tools"]) = SumSizes(pages)
    /\ Served2210 => (fetches = 3 /\ Cardinality(registered["tools"]) = 5)

\* C9: when addTools has returned nil it issued one list call per page served,
\* the last page is the first with no items or no cursor, and without a filter
\* every item of every page, that last page included, is registered; for the
\* pages 2, 2, 1, 0 that is exactly 4 list calls and exactly 5 items.
C9_PaginationDrained ==
  AddToolsDone =>
    /\ fetches = Len(pages)
    /\ fetches >= 1
    /\ StopsAt(pages[Len(pages)])
    /\ \A i \in 1..(Len(pages) - 1) : ~StopsAt(pages[i])
    /\ ~filter.set => registered["tools"] = 1..SumSizes(pages)
    /\ Served2210 =>
         /\ fetches = 4
         /\ ~filter.set => Cardinality(registered["tools"]) = 5

\* addTools has returned from the pages 2, 2, 1, 0 without a filter
C9_Witness ==
  /\ AddToolsDone
  /\ ~filter.set
  /\ Served2210
  /\ fetches = 4
  /\ registered["tools"] = 1..5

\* a RegisterClient that passed its guard is under way or has returned
BindCall == pret.op = "RegisterClient" /\ pret.err # "already"

\* C10: a RegisterClient that passed its guard returns an error exactly when a
\* list call for tools failed, and then no other kind was attempted; otherwise
\* all four kinds were attempted whichever of the other three failed, and the
\* items of a kind whose loop ended without a failure are registered.
C10_BindFailsIffToolsFail ==
  BindCall =>
    /\ ppc = "idle" =>
         /\ pret.err # NoError <=> "tools" \in failedKinds
         /\ pret.err = NoError => attempted = KindSet
         /\ pret.err # NoError => attempted = {"tools"}
    /\ (lastKind \in KindSet \ failedKinds /\ ppc # lastKind) =>
         Kept(lastKind) \subseteq registered[lastKind]
    /\ failedKinds \subseteq attempted

\* the first RegisterClient returned nil although listing prompts and listing
\* resource templates failed; the tool and the resource listed are registered
C10_Witness ==
  /\ BindCall
  /\ binds = 1
  /\ ppc = "idle"
  /\ pret.err = NoError
  /\ failedKinds = {"prompts", "templates"}
  /\ attempted = KindSet
  /\ registered["tools"] = {1}
  /\ registered["resources"] = {1}
  /\ registered["prompts"] = {}

(***************************************************************************)
(* Properties of the middleware chain (checked under SpecHttp).            *)
(***************************************************************************)

\* the request has entered layer l
Entered(l) == \E i \in 1..Len(trace) : trace[i] = l

\* the layer l is part of the chained handler
InChain(l) == \E i \in 1..Len(handler) : handler[i] = l

\* the request carries `Bearer <token>` with a configured token
BearerOfConfigured ==
  /\ header.scheme = "Bearer "
  /\ Str("", header.text, FALSE) \in AuthTokensOf

\* C11: a request that auth has decided reaches the next handler if and only
\* if its Authorization header is `Bearer <token>` with a configured token;
\* otherwise the response is 401 and the next handler is not invoked.
C11_AuthBearerOnly ==
  (hpc = "done" /\ Entered("auth") /\ behave.panicAt # "auth") =>
    /\ Entered("endpoint") <=> BearerOfConfigured
    /\ ~BearerOfConfigured => status = 401

\* the place of a layer in the order recovery, logger, auth, endpoint
Rank(l) ==
  CASE l = "recovery" -> 1
    [] l = "logger"   -> 2
    [] l = "auth"     -> 3
    [] OTHER          -> 4

\* C12: the layers of a route are in the order recovery, logger, auth,
\* endpoint, and a request enters them in that order: when it reaches auth or
\* panics below the logger it has been logged, and a request that auth answers
\* with 401 never enters the endpoint.
C12_MiddlewareOrder ==
  hpc # "nochain" =>
    /\ handler[1] = "recovery"
    /\ handler[Len(handler)] = "endpoint"
    /\ \A i, j \in 1..Len(handler) : i < j => Rank(handler[i]) < Rank(handler[j])
    /\ trace = SubSeq(handler, 1, Len(trace))
    /\ (InChain("logger") /\ (Entered("auth") \/ Entered("endpoint"))) => logged
    /\ (hpc = "done" /\ status = 401) => ~Entered("endpoint")

\* with recovery, logger and auth in the chain, a request with a configured
\* token was logged, passed auth, and made the endpoint panic
C12_Witness ==
  /\ hpc = "done"
  /\ trace = <<"recovery", "logger", "auth", "endpoint">>
  /\ logged
  /\ behave.panicAt = "endpoint"
  /\ recovered
  /\ status = 500

\* the request panicked in a layer it entered
Panicked == hpc = "done" /\ behave.panicAt # "none" /\ Entered(behave.panicAt)

C14_NoIdleMiddleware ==
  hpc # "nochain" =>
    /\ InChain("auth") <=> (opts.set /\ opts.authTokens # {})
    /\ InChain("logger") <=> (opts.set /\ opts.logEnabled = "true")
    /\ Cardinality({i \in 1..Len(handler) : handler[i] = "recovery"}) = 1
    /\ Len(handler) =
         2 + (IF InChain("auth") THEN 1 ELSE 0) + (IF InChain("logger") THEN 1 ELSE 0)

\* Options with logging switched off and no token: the chain is recovery and
\* the endpoint, and a request without a header was answered 200
C14_Witness ==
  /\ opts.set
  /\ opts.logEnabled = "false"
  /\ opts.authTokens = {}
  /\ handler = <<"recovery", "endpoint">>
  /\ hpc = "done"
  /\ header = Str("", "", FALSE)
  /\ status = 200

(***************************************************************************)
(* Properties of Application.Run (checked under SpecApp, and under         *)
(* SpecAppLive where the property is about what eventually happens).       *)
(***************************************************************************)

\* StopAll has been invoked
StopAllInvoked ==
  \/ mpc = "stopping"
  \/ \E i \in 1..Len(calls) : calls[i] = "StopAll"
  \/ \E o \in Conns : disconnectCalls[o] > 0

\* a Connect of Run's StartAll has returned an error
ConnectFailed == ~StopAllInvoked /\ \E n \in Names : tres[n] = "err"

\* no route was built and the listener was never started
NothingServed ==
  /\ routes = {}
  /\ btask = [n \in Names |-> "none"]
  /\ listener = "none"
  /\ shutdownErr = NoError

\* C15: once a Connect of StartAll has failed, Run builds no route and starts
\* no listener, and it returns an error, so that main exits with status 1.
C15_ConnectFailureAborts ==
  ConnectFailed =>
    /\ apc \in {"StartAll", "Returned"}
    /\ NothingServed
    /\ apc = "Returned" => (runRet = "startall" /\ exitCode = 1)

\* Run returned StartAll's error although another upstream had connected
C15_Witness ==
  /\ apc = "Returned"
  /\ runRet = "startall"
  /\ exitCode = 1
  /\ \E n, m \in Names : tres[n] = "err" /\ tres[m] = "ok" /\ connected[clients[m]]
  /\ NothingServed

\* C16: when options.panicIfInvalid is false (partial startup is allowed) and
\* one of several upstreams failed to connect while another connected, Run
\* does not return StartAll's error: it goes on to build routes and serve.
C16_PartialStartupServes ==
  (/\ cfg.panicIfInvalid = "false"
   /\ ConnectFailed
   /\ \E m \in Names : tres[m] = "ok") => runRet # "startall"

\* C17: StopAll is invoked, and an upstream is disconnected, only after
\* httpServer.Shutdown has closed the listener and returned; until then nothing
\* is disconnected; Run returns nil only after StopAll was invoked, also when
\* Shutdown returned an error.
C17_ShutdownOrder ==
  /\ StopAllInvoked => (listener = "closed" /\ apc \in {"StopAll", "Returned"})
  /\ apc \in {"Serving", "Signalled", "Draining"} =>
       \A n \in Names : clients[n] # Nil => connected[clients[n]]
  /\ (apc = "Returned" /\ runRet = NoError) => StopAllInvoked

\* Shutdown ran into its deadline, and StopAll was called and returned before
\* Run returned
C17_Witness ==
  /\ apc = "Returned"
  /\ runRet = NoError
  /\ shutdownErr = "deadline"
  /\ calls = <<"StartAll", "StopAll">>
  /\ listener = "closed"
  /\ \E n \in Names : clients[n] # Nil /\ disconnectCalls[clients[n]] = 1

\* C18: once the signal is received, Run eventually returns (or the process
\* has exited), whatever Shutdown and the Disconnect calls do.
C18_ShutdownTerminates ==
  (apc = "Signalled") ~> (apc \in {"Returned", "Exited"})

\* Load and Validate both succeeded
ConfigAccepted == cfg.loads /\ cfg.valid

\* C19: unless Load and Validate both succeeded, no client is created or
\* added, no Connect is attempted, no route is built and no listener started,
\* and Run returns the error of the step that failed.
C19_ValidationGate ==
  ~ConfigAccepted =>
    /\ apc \in {"Load", "Validate", "Returned"}
    /\ created = {}
    /\ \A n \in Names : clients[n] = Nil
    /\ calls = <<>>
    /\ mpc = "idle"
    /\ \A o \in Conns : connectCalls[o] = 0 /\ ~connected[o]
    /\ NothingServed
    /\ apc = "Returned" =>
         (runRet = (IF cfg.loads THEN "validate" ELSE "load") /\ exitCode = 1)

\* the config loaded, Validate rejected it, and Run returned that error
C19_Witness ==
  /\ cfg.loads
  /\ ~cfg.valid
  /\ cfg.servers = Names
  /\ apc = "Returned"
  /\ runRet = "validate"
  /\ created = {}

\* the upstreams of the registry
Upstreams == {n \in Names : clients[n] # Nil}

\* C20: createHTTPServer runs one task per upstream of the registry and returns
\* only when all have returned; Run goes on to start the listener only with
\* every task succeeded and every route mounted; if a task failed Run returns
\* an error and the listener is never started.
C20_RoutesBeforeServing ==
  /\ apc = "Building" => \A n \in Names : btask[n] # "none" <=> n \in Upstreams
  /\ (apc \in {"Serving", "Signalled", "Draining", "StopAll", "Exited"}
        \/ listener # "none" \/ runRet = NoError) =>
       /\ \A n \in Upstreams : btask[n] = "ok"
       /\ routes = Upstreams
  /\ (\E n \in Names : btask[n] = "err") =>
       /\ listener = "none"
       /\ apc \in {"Building", "Returned"}
       /\ apc = "Returned" =>
            /\ runRet = "build"
            /\ exitCode = 1
            /\ \A n \in Names : btask[n] # "run"

\* the task of one upstream mounted its route, the task of the other failed,
\* and Run returned the error without a listener
C20_Witness ==
  /\ apc = "Returned"
  /\ runRet = "build"
  /\ \E n, m \in Names : btask[n] = "ok" /\ n \in routes /\ btask[m] = "err"
  /\ listener = "none"

(***************************************************************************)
(* Claims C21 - C30.                                                       *)
(***************************************************************************)

C22_AddClient ==
  [][\A o \in Conns : AddClientCall(o) =>
       IF clients[NameOf(o)] # Nil
         THEN regRet'.err = "already exists" /\ clients' = clients
         ELSE regRet'.err = NoError /\ clients'[NameOf(o)] = o]_vars

\* a second connection named like a registered one was refused
C22_Witness ==
  /\ regRet.op = "AddClient"
  /\ regRet.err = "already exists"
  /\ \E o \in created : clients[NameOf(o)] # o /\ clients[NameOf(o)] # Nil

\* C23: RemoveClient of an absent name returns the not-found error and
\* changes nothing; of a present name it disconnects the connection, deletes
\* the entry and returns nil, also when Disconnect returned an error.
C23_RemoveClient ==
  [][\A n \in Names : RemoveClientCall(n) =>
       IF clients[n] = Nil
         THEN regRet'.err = "not found" /\ UNCHANGED mgrVars
         ELSE /\ regRet'.err = NoError
              /\ clients'[n] = Nil
              /\ ~connected'[clients[n]]
              /\ life'[clients[n]] = "down"]_vars

\* a connected connection was removed although its Disconnect failed
C23_Witness ==
  /\ regRet.op = "RemoveClient"
  /\ regRet.err = NoError
  /\ regRet.logged
  /\ \E n \in Names : clients[n] = Nil

\* the goroutine is inside a method that writes the map / only reads it
Mutating(t) == lpc[t] \in {"AddClient", "RemoveClient"}
Reading(t)  == lpc[t] \in {"GetClient", "GetClients", "StartAll", "StopAll"}

\* C24: while a goroutine is inside AddClient or RemoveClient no other
\* goroutine is inside a method of the registry, reading or writing the map
\* (reads may overlap one another: C24_Witness).
C24_LockDiscipline ==
  \A t, u \in Threads :
    (t # u /\ Mutating(t)) => ~(Mutating(u) \/ Reading(u))

\* two reads of the map overlap
C24_Witness ==
  \E t, u \in Threads : t # u /\ Reading(t) /\ Reading(u) /\ mutex.r = 2

\* the entries of the map the caller holds
GotMap == IF got.shared THEN clients ELSE got.map

\* C25: an edit of the map GetClients returned leaves the registry's map as
\* it was, and an AddClient or RemoveClient made after GetClients leaves the
\* returned map as it was.
C25_GetClientsCopy ==
  [][/\ (\E n \in Names, v \in Conns \cup {Nil} : GotEdit(n, v))
          => clients' = clients
     /\ (got.has /\ (\/ \E o \in Conns : AddClientCall(o)
                      \/ \E n \in Names : RemoveClientCall(n)))
          => GotMap' = GotMap]_vars

\* the caller's map and the registry have come apart: an entry the caller
\* deleted is still registered, and one registered later is not in its map
C25_Witness ==
  /\ got.has
  /\ \E n, m \in Names :
       /\ GotMap[n] = Nil /\ clients[n] # Nil
       /\ GotMap[m] # Nil /\ clients[m] # GotMap[m]

\* C26: UnregisterClient on a unit whose client is nil returns the not-bound
\* error; on a unit whose client is set it returns nil and GetClient returns
\* nil afterwards; either way every tool, prompt, resource and template
\* registered on the local endpoint stays registered.
C26_Unbind ==
  [][UnregisterClient =>
       /\ pret'.err = (IF psClient = Nil THEN "notbound" ELSE NoError)
       /\ psClient' = Nil
       /\ registered' = registered]_vars

\* a unit that was bound and filled has been unbound and keeps its tools
C26_Witness ==
  /\ pret = [op |-> "UnregisterClient", err |-> NoError]
  /\ psClient = Nil
  /\ nBound = 1
  /\ registered["tools"] # {}

\* every ping task started has returned
PingTasksEnded == \A o \in Conns : ptask[o].ended = pingTasks[o]

\* C27: once the context is cancelled every ping task a successful Connect
\* of an sse or streamable connection started returns, with no stop call
\* made on it, and no task sends a ping after it took <-ctx.Done().
C27_PingTasksEnd ==
  /\ ctxDone ~> PingTasksEnded
  /\ [](\A o \in Conns : ~ptask[o].late)

\* a ping task that had sent a ping returned after the cancellation
C27_Witness ==
  /\ ctxDone
  /\ \E o \in Conns :
       /\ NeedsPing(o)
       /\ pingTasks[o] > 0
       /\ ptask[o].pings > 0
       /\ ptask[o].ended = pingTasks[o]

\* C28: after Load every option of the upstream that the file left unset
\* (panicIfInvalid, logEnabled, authTokens, toolFilter) has the proxy's value
\* of that option, and every option the file set keeps the upstream's value.
C28_OptionsInherited ==
  loaded =>
    \A f \in {"panicIfInvalid", "logEnabled", "authTokens", "toolFilter"} :
      effOpts[f] = IF srvOpts[f] = Unset THEN proxyOpts[f] ELSE srvOpts[f]

\* C29: when addTools has returned nil under a filter with a non-empty list
\* and a mode that is neither allow nor block in any letter case, every tool
\* the upstream listed is registered.
C29_UnknownModeFailsOpen ==
  (/\ AddToolsDone
   /\ FilterList # {}
   /\ filter.mode \notin {"allow", "ALLOW", "block", "Block"})
    => registered["tools"] = ListedTools

\* addTools has returned under a "deny" filter that lists a listed tool, and
\* that tool is registered
C29_Witness ==
  /\ AddToolsDone
  /\ filter.set
  /\ filter.mode = "deny"
  /\ filter.list \cap ListedTools # {}
  /\ registered["tools"] = ListedTools

\* the words of a string, and whether it is made of plain words (no "..")
Words(s) == SelectSeq(s, LAMBDA t : t # "/")
Plain(s) == \A i \in 1..Len(s) : s[i] # ".."

\* C30: the route mounted for an upstream starts with "/" and ends with "/";
\* when the base path and the name hold plain words its words are those of
\* the base path followed by those of the name, one "/" between them; base
\* paths `api` and `/api/` with the name `github` both give `/api/github/`.
C30_RouteKey ==
  mcpRoute # <<>> =>
    /\ mcpRoute[1] = "/"
    /\ mcpRoute[Len(mcpRoute)] = "/"
    /\ (Plain(basePath) /\ Plain(upName)) =>
         /\ Words(mcpRoute) = Words(basePath) \o Words(upName)
         /\ \A i \in 1..(Len(mcpRoute) - 1) :
              (mcpRoute[i] = "/") # (mcpRoute[i + 1] = "/")
    /\ (upName = <<"github">> /\ basePath \in {<<"api">>, <<"/", "api", "/">>}) =>
         mcpRoute = <<"/", "api", "/", "github", "/">>

\* the route of `github` under the base path `api`
C30_Witness ==
  /\ basePath = <<"api">>
  /\ upName = <<"github">>
  /\ mcpRoute = <<"/", "api", "/", "github", "/">>

(***************************************************************************)
(* Claims C31 - C40.                                                       *)
(***************************************************************************)

\* the task of the upstream has computed its route and called mux.Handle
Handled(n) == btask[n] \in {"ok", "panic"}

\* C31: the tasks of two upstreams never hand the same route to mux.Handle,
\* and once the listener has been started the routes mounted are those
\* createHTTPServer returned with.
C31_RouteTableWriteOnce ==
  /\ \A n, m \in Names :
       (n # m /\ Handled(n) /\ Handled(m)) => MountKey(n) # MountKey(m)
  /\ listener # "none" => routes = Upstreams

\* the step is a list call of the kind whose loop is running
IsFetch ==
  /\ ppc \in KindSet
  /\ lastKind' = ppc
  /\ fetches' = Fetches0(ppc) + 1

\* C32: the first list call of a kind carries the empty cursor, every later
\* one carries the NextCursor the call before it returned, and a list call is
\* made only when every earlier one of the kind has returned a page.
C32_SequentialPagination ==
  [][IsFetch =>
       /\ cursor = IF FirstFetch(ppc) THEN 0 ELSE NextCursor(pages)
       /\ ~FirstFetch(ppc) => (Len(pages) = fetches /\ pages[Len(pages)].more)]_vars

\* a second list call of a kind has returned; it carried the cursor of the
\* first page
C32_Witness ==
  /\ lastKind = "prompts"
  /\ fetches = 2
  /\ Len(pages) = 2
  /\ NextCursor(SubSeq(pages, 1, 1)) = 1

\* C33: driven by the same calls, the stdio, sse and streamable connections
\* are connected or not together and return the same outcome for each call.
C33_VariantsEquivalent ==
  \A o, p \in Conns :
    /\ connected[o] = connected[p]
    /\ outcome[o] = outcome[p]

\* the transport could not be started: every Connect failed, the sse and
\* streamable connections hold a client and the stdio one does not; then a
\* call was refused by all three
C33_Witness ==
  /\ steps >= 2
  /\ \A o \in Conns : outcome[o] = ErrNotConnected
  /\ \E o, p \in Conns : client[o] /\ ~client[p]

\* RegisterClient has returned the error of the tool catalog
BindFailedOnTools ==
  /\ ppc = "idle"
  /\ pret.op = "RegisterClient"
  /\ pret.err = "tools"

\* C34: when RegisterClient has returned an error because listing the tools
\* failed, the unit has no bound connection (GetClient returns nil) and the
\* guard of RegisterClient lets the next call through.
C34_FailedBindUnbound ==
  BindFailedOnTools => (psClient = Nil /\ ~AlreadyRegistered)

\* C35: whatever the interleaving of Disconnect with a call or a tick on the
\* connection, the call is refused or skipped, or reaches the live handle: it
\* never calls through the handle Disconnect has closed and set to nil.
C35_NoUseOfClearedHandle ==
  /\ ~crashed
  /\ \A o \in Conns : outcome[o] \notin {"nil dereference", "closed handle"}

\* Run has returned an error after its StartAll had returned
AbortedAfterStartAll ==
  /\ apc = "Returned"
  /\ runRet # NoError
  /\ \E i \in 1..Len(calls) : calls[i] = "StartAll"

\* C36: when Run returns an error after StartAll was invoked (a Connect
\* failed, or building the routes failed), no upstream connection is left
\* connected.
C36_AbortedStartupCleansUp ==
  AbortedAfterStartAll => \A o \in Conns : ~connected[o]

\* the connection is an entry of m.clients
InRegistry(o) == \E n \in Names : clients[n] = o

\* C37: once StartAll and the RemoveClient calls made while it ran have
\* returned, every connected connection is an entry of the registry.
C37_ConnectedAreRegistered ==
  (mpc = "idle" /\ ~crashed) =>
    \A o \in Conns : connected[o] => InRegistry(o)

\* C38: while the context is not cancelled, whatever Connect and Disconnect
\* calls were made on a connection, at most one ping task of it is running.
C38_OnePingTask ==
  ~ctxDone => \A o \in Conns : PingLive(o) <= 1

\* the last call made on the connection was a Disconnect
Disconnected(o) == ~connected[o] /\ outcome[o] \in {NoError, "close failed"}

\* C39: after a Connect that failed once the client was created, and a
\* Disconnect after it, the connection holds no client and every client it
\* created has been closed.
C39_FailedConnectReleases ==
  \A o \in Conns : Disconnected(o) => (openHandles[o] = 0 /\ ~client[o])

\* what an allow or block filter lets through of the tools listed
Filtered ==
  {t \in ListedTools :
     IF ToLower(filter.mode) = "allow" THEN t \in filter.list
     ELSE t \notin filter.list}

\* C40: under a tool filter Validate accepted, a unit with a non-empty filter
\* list registers the tools an allow or block filter lets through, the mode
\* read without regard to letter case, and never all tools by way of the
\* unknown-mode branch; Validate accepts allow and block in any letter case.
C40_ValidateAndFilterAgree ==
  /\ (ValidateAccepts /\ FilterActive) =>
       /\ ToLower(filter.mode) \in {"allow", "block"}
       /\ AddToolsDone => registered["tools"] = Filtered
  /\ (filter.set /\ ToLower(filter.mode) \in {"allow", "block"}) => ValidateAccepts

\* Validate accepted the mode "ALLOW"; addTools has returned and registered
\* the listed tools of the upstream, and not the others
C40_Witness ==
  /\ ValidateAccepts
  /\ AddToolsDone
  /\ filter.mode = "ALLOW"
  /\ filter.list \cap ListedTools # {}
  /\ ListedTools \ filter.list # {}
  /\ registered["tools"] = filter.list \cap ListedTools

====
